---- MODULE Spec2Model ----
(***************************************************************************)
(* Model of the token-gated batched historical fetch of tradingview_mcp:   *)
(*   - get_valid_jwt_token and its process-wide cache and lock             *)
(*     (tradingview_tools.py), with extract_jwt_token / get_token_info     *)
(*     (auth.py) as the token provider;                                    *)
(*   - validate_indicators (validators.py);                                *)
(*   - fetch_historical_data and its parallel fetch_batch workers          *)
(*     (tradingview_tools.py);                                             *)
(*   - merge_ohlc_with_indicators and convert_timestamp_to_indian_time     *)
(*     (utils.py).                                                         *)
(***************************************************************************)
EXTENDS Integers, Sequences, FiniteSets, TLC

\* ------------------------------------------------------------------------
\* Bounds of the model
\* ------------------------------------------------------------------------
MaxTime == 2
MaxTokens == 1
NumThreads == 2
\* candles of a merge input, points of a series
MaxRows == 2
MaxSeriesLen == 2
\* the timestamp of period 0 and the length of a period ("1m")
BaseTs == 1700000000
PeriodSeconds == 60
\* indicator lists: all lists up to ShortLists names, cycles up to MaxIndicators
ShortLists == 2
MaxIndicators == 5
\* the newest period when the fetch starts, and the periods added meanwhile
StrikeCount == 4
FirstStrike == 25700000
StrikeStep == 100000
FirstExpiry == 20251104
SecondExpiry == 20251202
MissingExpiry == 20991231
MaxTopN == 3

InitLatest == 2
MaxDrift == 1

\* ------------------------------------------------------------------------
\* Program constants
\* ------------------------------------------------------------------------
\* Python's None where an integer is expected (payload.get('exp') -> None)
None == -1
\* the 60 second buffer of the cache check
SafetyMargin == 60
\* "Default 1 hour if no exp"
DefaultTtl == 3600
\* validators.py: MAX_INDICATORS_PER_REQUEST
MAX_INDICATORS_PER_REQUEST == 2
\* fetch_historical_data: BATCH_SIZE
BATCH_SIZE == 2
\* "Number of candles must be between 1 and 5000"
MinCandles == 1
MaxCandles == 5000

VARIABLES
    token_cache,    \* _token_cache: [token, expiry]
    token_lock,     \* _token_lock: the thread holding it, or NoThread
    now,            \* int(time.time())
    cookie,         \* os.environ TRADINGVIEW_COOKIE, or NoCookie
    tok,            \* per thread: the frame of its get_valid_jwt_token call
    m_pc,           \* merge_ohlc_with_indicators called on m_data: position
    m_data,         \* its argument: [ohlc, indicator]
    m_result,       \* its result
    m_orig,         \* a deep copy of the argument taken before the first call
    m_second,       \* the result of a second call on the same argument
    fh,             \* the frame of the fetch_historical_data call
    wk,             \* per batch index: the state of its fetch_batch worker
    latest,         \* the newest period the market data source has
    provider_calls, \* number of extract_jwt_token calls made by the fetch
    stream_calls,   \* the Streamer.stream requests made by the fetch
    oc,             \* the frame of the process_option_chain_with_analysis call
    oc_calls        \* the scanner requests it has made, in order

tokenVars == <<token_cache, token_lock, now, cookie, tok>>
mergeVars == <<m_pc, m_data, m_result, m_orig, m_second>>
fetchVars == <<fh, wk, latest, provider_calls, stream_calls>>
optionVars == <<oc, oc_calls>>
vars == <<tokenVars, mergeVars, fetchVars, optionVars>>

\* ------------------------------------------------------------------------
\* Threads
\* ------------------------------------------------------------------------
\* the threads that call get_valid_jwt_token concurrently (request handlers,
\* batch workers); 0 stands for "no thread"
NoThread == 0
Threads == 1..NumThreads

\* ------------------------------------------------------------------------
\* Tokens and the token provider (auth.py)
\* ------------------------------------------------------------------------
NoCookie == "unset"
NoToken == [id |-> 0, exp |-> None, valid |-> FALSE, cred |-> NoCookie]

\* A token string: its identity, the exp claim of its payload (None when the
\* payload has none), whether its payload decodes, and the credential it was
\* issued for.
IssuedTokens(t, cred) ==
    {[id |-> i, exp |-> e, valid |-> TRUE, cred |-> cred] :
        i \in 1..MaxTokens,
        e \in {t + SafetyMargin, t + SafetyMargin + 1, MaxTime + DefaultTtl, None}}
    \cup {[id |-> 1, exp |-> None, valid |-> FALSE, cred |-> cred]}

\* extract_jwt_token: raises ValueError without a cookie or on a request
\* failure; otherwise returns a token (tests patch it to return anything,
\* the caller also handles a falsy return and a non-ValueError exception).
extract_jwt_token(t, cred) ==
    IF cred = NoCookie
    THEN {[kind |-> "value_error", token |-> NoToken]}
    ELSE {[kind |-> "value_error", token |-> NoToken],
          [kind |-> "exception", token |-> NoToken],
          [kind |-> "none", token |-> NoToken]}
         \cup {[kind |-> "token", token |-> tk] : tk \in IssuedTokens(t, cred)}

\* get_token_info: {'valid': False, 'error': ...} when the payload does not
\* decode, else {'valid': True, 'exp': payload.get('exp'), ...}: the key
\* 'exp' is always present in a valid info, with value None when the payload
\* has no exp claim.
get_token_info(token) ==
    IF token.valid
    THEN [valid |-> TRUE, keys |-> {"valid", "exp", "iat", "user_id"}, exp |-> token.exp]
    ELSE [valid |-> FALSE, keys |-> {"valid", "error"}, exp |-> None]

\* token_info.get('exp', default): the default is used only when the key is
\* absent.
InfoGetExp(info, default) ==
    IF "exp" \in info.keys THEN info.exp ELSE default

\* ------------------------------------------------------------------------
\* get_valid_jwt_token (tradingview_tools.py:39-84)
\* ------------------------------------------------------------------------
IdleFrame ==
    [pc |-> "idle", force |-> FALSE, current_time |-> 0,
     seen |-> [token |-> NoToken, expiry |-> 0],
     token |-> NoToken, called |-> FALSE, outcome |-> "none", result |-> NoToken]

LockFree_NoLock == TRUE

\* `with _token_lock:` can be entered
LockFree == token_lock = NoThread

\* line 58: not force_refresh and _token_cache['token'] and
\* _token_cache['expiry'] > (current_time + 60).  Comparing None with an int
\* raises TypeError.
CacheCheck(force, cache, ct) ==
    IF force THEN "refresh"
    ELSE IF cache.token = NoToken THEN "refresh"
    ELSE IF cache.expiry = None THEN "type_error"
    ELSE IF cache.expiry > ct + SafetyMargin THEN "cached"
    ELSE "refresh"

\* a thread calls get_valid_jwt_token(force_refresh=force)
TokenCall(t, force) ==
    /\ tok[t].pc = "idle"
    /\ tok' = [tok EXCEPT ![t] = [IdleFrame EXCEPT !.pc = "want", !.force = force]]
    /\ UNCHANGED <<token_cache, token_lock, now, cookie>>
    /\ UNCHANGED <<mergeVars, fetchVars, optionVars>>

\* lines 54-59: take the lock, read the clock, check the cache
Enter(t) ==
    /\ tok[t].pc = "want"
    /\ LockFree
    /\ token_lock' = t
    /\ LET chk == CacheCheck(tok[t].force, token_cache, now)
           f0 == [tok[t] EXCEPT !.current_time = now, !.seen = token_cache]
       IN tok' = [tok EXCEPT ![t] =
            CASE chk = "cached" ->
                    [f0 EXCEPT !.pc = "returning", !.outcome = "cached",
                               !.result = token_cache.token]
              [] chk = "type_error" ->
                    [f0 EXCEPT !.pc = "raising", !.outcome = "type_error"]
              [] OTHER ->
                    [f0 EXCEPT !.pc = "calling", !.called = TRUE]]
    /\ UNCHANGED <<token_cache, now, cookie>>
    /\ UNCHANGED <<mergeVars, fetchVars, optionVars>>

\* lines 63-70 and 78-84: the provider call returns or raises; the token is
\* checked and decoded; any failure leaves as ValueError
TokenAccepted(o) == o.kind = "token" /\ get_token_info(o.token).valid

AfterProvider(f, o) ==
    IF TokenAccepted(o)
    THEN [f EXCEPT !.pc = "store_token", !.token = o.token]
    ELSE [f EXCEPT !.pc = "raising", !.outcome = "value_error"]

CacheAfterProvider_Poison(cache, o) ==
    IF o.kind = "token" THEN [cache EXCEPT !.token = o.token] ELSE cache

\* lines 63-70 leave the cache alone: it is written only at lines 73-74
CacheAfterProvider(cache, o) == cache

ProviderReturns(t) ==
    /\ tok[t].pc = "calling"
    /\ \E o \in extract_jwt_token(now, cookie) :
        /\ tok' = [tok EXCEPT ![t] = AfterProvider(tok[t], o)]
        /\ token_cache' = CacheAfterProvider(token_cache, o)
    /\ UNCHANGED <<token_lock, now, cookie>>
    /\ UNCHANGED <<mergeVars, fetchVars, optionVars>>

\* line 73
StoreToken(t) ==
    /\ tok[t].pc = "store_token"
    /\ token_cache' = [token_cache EXCEPT !.token = tok[t].token]
    /\ tok' = [tok EXCEPT ![t].pc = "store_expiry"]
    /\ UNCHANGED <<token_lock, now, cookie>>
    /\ UNCHANGED <<mergeVars, fetchVars, optionVars>>

\* line 74
NewExpiry(token, ct) == InfoGetExp(get_token_info(token), ct + DefaultTtl)

\* lines 74-76
StoreExpiry(t) ==
    /\ tok[t].pc = "store_expiry"
    /\ token_cache' = [token_cache EXCEPT !.expiry = NewExpiry(tok[t].token, tok[t].current_time)]
    /\ tok' = [tok EXCEPT ![t] = [@ EXCEPT !.pc = "returning", !.outcome = "new",
                                           !.result = tok[t].token]]
    /\ UNCHANGED <<token_lock, now, cookie>>
    /\ UNCHANGED <<mergeVars, fetchVars, optionVars>>

\* leaving the with block, by return or by exception, releases the lock
Release(t) ==
    /\ tok[t].pc \in {"returning", "raising"}
    /\ token_lock' = NoThread
    /\ tok' = [tok EXCEPT ![t] = IdleFrame]
    /\ UNCHANGED <<token_cache, now, cookie>>
    /\ UNCHANGED <<mergeVars, fetchVars, optionVars>>

\* http_main.py:204-207 and 242-247: an endpoint puts the cookie of its
\* request into TRADINGVIEW_COOKIE before it calls the tools, and puts the
\* former value back, or removes the variable, when it is done
Credentials == {NoCookie, "A", "B"}
CookieOverride(c) ==
    /\ \A t \in Threads : tok[t].pc = "idle"
    /\ c # cookie
    /\ cookie' = c
    /\ UNCHANGED <<token_cache, token_lock, now, tok>>
    /\ UNCHANGED <<mergeVars, fetchVars, optionVars>>

\* the clock advances
Tick ==
    /\ now < MaxTime
    /\ now' = now + 1
    /\ UNCHANGED <<token_cache, token_lock, cookie, tok>>
    /\ UNCHANGED <<mergeVars, fetchVars, optionVars>>

\* ------------------------------------------------------------------------
\* Indicator catalog (validators.py)
\* ------------------------------------------------------------------------
\* INDICATOR_MAPPING, in dict order: short name -> (TradingView key, version)
INDICATOR_MAPPING ==
    << [short |-> "RSI",  key |-> "STD;RSI",  version |-> "44.0"],
       [short |-> "MACD", key |-> "STD;MACD", version |-> "38.0"],
       [short |-> "CCI",  key |-> "STD;CCI",  version |-> "37.0"],
       [short |-> "BB",   key |-> "STD;Bollinger_Bands", version |-> "32.0"] >>

\* INDICATOR_FIELD_MAPPING, in dict order: short name -> (index key, field)
INDICATOR_FIELD_MAPPING(short) ==
    CASE short = "RSI" ->
            << <<"2", "Relative_Strength_Index">>,
               <<"0", "Relative_Strength_Index_Moving_Average">> >>
      [] short = "MACD" ->
            << <<"4", "Moving_Average_Convergence_Divergence_macd">>,
               <<"5", "Moving_Average_Convergence_Divergence_signal">>,
               <<"2", "Moving_Average_Convergence_Divergence_histogram">> >>
      [] short = "CCI" ->
            << <<"0", "Commodity_Channel_Index">>,
               <<"1", "Commodity_Channel_Index_Moving_Average">> >>
      [] short = "BB" ->
            << <<"0", "Bollinger_Bands_middle_line">>,
               <<"1", "Bollinger_Bands_top_line">>,
               <<"2", "Bollinger_Bands_bottom_line">> >>
      [] OTHER -> << >>

\* VALID_INDICATORS = list(INDICATOR_MAPPING.keys())
VALID_INDICATORS == [i \in 1..Len(INDICATOR_MAPPING) |-> INDICATOR_MAPPING[i].short]

Range(s) == {s[i] : i \in 1..Len(s)}
SeqsUpTo(S, n) == UNION {[1..k -> S] : k \in 0..n}

\* ------------------------------------------------------------------------
\* convert_timestamp_to_indian_time (utils.py:12-31)
\* ------------------------------------------------------------------------
\* Asia/Kolkata is UTC+05:30
IstOffset == 19800

\* the civil date of a day number counted from 1970-01-01
CivilFromDays(days) ==
    LET z == days + 719468
        era == z \div 146097
        doe == z - era * 146097
        yoe == (doe - (doe \div 1460) + (doe \div 36524) - (doe \div 146096)) \div 365
        doy == doe - (365 * yoe + (yoe \div 4) - (yoe \div 100))
        mp == (5 * doy + 2) \div 153
        d == doy - ((153 * mp + 2) \div 5) + 1
        m == IF mp < 10 THEN mp + 3 ELSE mp - 9
        y == yoe + era * 400 + (IF m <= 2 THEN 1 ELSE 0)
    IN [Y |-> y, m |-> m, d |-> d]

\* strftime("%d-%m-%Y %I:%M:%S %p IST") of the timestamp in IST
convert_timestamp_to_indian_time(ts) ==
    LET ist == ts + IstOffset
        date == CivilFromDays(ist \div 86400)
        sod == ist % 86400
        H == sod \div 3600
    IN [d |-> date.d, m |-> date.m, Y |-> date.Y,
        I |-> IF H % 12 = 0 THEN 12 ELSE H % 12,
        M |-> (sod % 3600) \div 60,
        S |-> sod % 60,
        p |-> IF H < 12 THEN "AM" ELSE "PM"]

\* ------------------------------------------------------------------------
\* merge_ohlc_with_indicators (utils.py:54-175)
\* ------------------------------------------------------------------------
\* A candle is [timestamp, open, high, low, close, volume, index]; a series
\* point is [timestamp, vals] with timestamp None when the key is absent and
\* vals the positional values present on the point.

\* A dict keyed by TradingView indicator key is the sequence of its
\* [key, values] items in insertion order.
DictHas(d, key) == \E i \in 1..Len(d) : d[i].key = key
DictGet(d, key) == d[CHOOSE i \in 1..Len(d) : d[i].key = key].values

\* dict.get(key, default) on a point's values
PointGet(point, key, default) ==
    IF key \in DOMAIN point.vals THEN point.vals[key] ELSE default

\* lines 80-87: the series found under the TradingView key of each catalog
\* indicator, in catalog order
RECURSIVE AvailableFrom(_, _)
AvailableFrom(mapping, indicator_data) ==
    IF mapping = << >> THEN << >>
    ELSE LET rest == AvailableFrom(Tail(mapping), indicator_data)
         IN IF DictHas(indicator_data, mapping[1].key)
            THEN <<[short |-> mapping[1].short,
                    values |-> DictGet(indicator_data, mapping[1].key)]>> \o rest
            ELSE rest

available_indicators(indicator_data) == AvailableFrom(INDICATOR_MAPPING, indicator_data)

\* lines 116-126: ts_map[ts] is the first item of the series with that
\* timestamp; items without a timestamp are skipped
TsMapHas(values, ts) ==
    \E j \in 1..Len(values) : values[j].timestamp # None /\ values[j].timestamp = ts

\* variant: the last item with the timestamp is kept
TsMapPick_Last(values, js) == CHOOSE j \in js : \A k \in js : j >= k

TsMapPick(values, js) == CHOOSE j \in js : \A k \in js : j <= k

TsMapGet(values, ts) ==
    values[TsMapPick(values, {j \in 1..Len(values) : values[j].timestamp = ts})]

\* lines 94-102 and 135-143
BaseEntry(ohlc_entry) ==
    [open |-> ohlc_entry.open, high |-> ohlc_entry.high, low |-> ohlc_entry.low,
     close |-> ohlc_entry.close, volume |-> ohlc_entry.volume,
     index |-> ohlc_entry.index,
     datetime_ist |-> convert_timestamp_to_indian_time(ohlc_entry.timestamp)]

\* lines 160-163: merged_entry[field_name] = indicator_entry.get(index_key, 0)
RECURSIVE ApplyFields(_, _, _)
ApplyFields(entry, field_mapping, indicator_entry) ==
    IF field_mapping = << >> THEN entry
    ELSE ApplyFields(
            (field_mapping[1][2] :> PointGet(indicator_entry, field_mapping[1][1], 0)) @@ entry,
            Tail(field_mapping), indicator_entry)

\* lines 151-158: the warning recorded when the lookup has no entry
MissingWarning(short, ts, i) ==
    [kind |-> "indicator_missing", indicator |-> short, timestamp |-> ts, index |-> i]

RECURSIVE EntryWith_ZeroFill(_, _, _)
EntryWith_ZeroFill(entry, avail, ts) ==
    IF avail = << >> THEN entry
    ELSE EntryWith_ZeroFill(
            ApplyFields(entry, INDICATOR_FIELD_MAPPING(avail[1].short),
                        IF TsMapHas(avail[1].values, ts)
                        THEN TsMapGet(avail[1].values, ts)
                        ELSE [timestamp |-> ts, vals |-> << >>]),
            Tail(avail), ts)

\* lines 148-163 for one candle: the entry with the fields of every indicator
\* that has a point at the candle's timestamp
RECURSIVE EntryWith(_, _, _)
EntryWith(entry, avail, ts) ==
    IF avail = << >> THEN entry
    ELSE IF TsMapHas(avail[1].values, ts)
         THEN EntryWith(ApplyFields(entry, INDICATOR_FIELD_MAPPING(avail[1].short),
                                    TsMapGet(avail[1].values, ts)),
                        Tail(avail), ts)
         ELSE EntryWith(entry, Tail(avail), ts)

\* variant: a missing point is not reported
EntryErrors_Silent(avail, ts, i) == << >>

\* lines 151-158 for one candle (i is the 0-based enumerate index)
RECURSIVE EntryErrors(_, _, _)
EntryErrors(avail, ts, i) ==
    IF avail = << >> THEN << >>
    ELSE (IF TsMapHas(avail[1].values, ts) THEN << >>
          ELSE <<MissingWarning(avail[1].short, ts, i)>>)
         \o EntryErrors(Tail(avail), ts, i)

RECURSIVE ConcatAll(_)
ConcatAll(ss) == IF ss = << >> THEN << >> ELSE ss[1] \o ConcatAll(Tail(ss))

MergeErrorsKey == "_merge_errors"

\* variant: an empty OHLC list is accepted
NoOhlcData_Never(ohlc_data) == FALSE

\* line 74: `if not ohlc_data:`
NoOhlcData(ohlc_data) == ohlc_data = << >>

\* the result of the call: raised (ValueError) or the returned list
merge_ohlc_with_indicators(data) ==
    LET ohlc_data == data.ohlc
        avail == available_indicators(data.indicator)
    IN IF NoOhlcData(ohlc_data)
       THEN [raised |-> TRUE, out |-> << >>]
       ELSE IF avail = << >>
       THEN [raised |-> FALSE,
             out |-> [i \in 1..Len(ohlc_data) |-> BaseEntry(ohlc_data[i])]]
       ELSE LET merged_data ==
                    [i \in 1..Len(ohlc_data) |->
                        EntryWith(BaseEntry(ohlc_data[i]), avail, ohlc_data[i].timestamp)]
                errors ==
                    ConcatAll([i \in 1..Len(ohlc_data) |->
                        EntryErrors(avail, ohlc_data[i].timestamp, i - 1)])
            IN [raised |-> FALSE,
                out |-> IF errors # << >>
                        THEN Append(merged_data, (MergeErrorsKey :> errors))
                        ELSE merged_data]


\* variant: the series of the caller are consumed by the call
DataAfterMerge_Drained(data) ==
    [data EXCEPT !.indicator =
        [n \in 1..Len(data.indicator) |-> [data.indicator[n] EXCEPT !.values = << >>]]]

\* the caller's dict once the call is over: the function only reads
\* ohlc_data and indicator_data, works on list(indicator_values) copies
\* (line 86), keeps the items in ts_map without writing to them, and writes
\* only to the new merged_entry dicts and the new lists merged_data, errors
DataAfterMerge(data) == data

NoMergeResult == [raised |-> FALSE, out |-> << >>]
NoData == [ohlc |-> << >>, indicator |-> << >>]

MergeIdle ==
    /\ m_pc = "idle"
    /\ m_data = NoData
    /\ m_result = NoMergeResult
    /\ m_orig = NoData
    /\ m_second = NoMergeResult

\* ------------------------------------------------------------------------
\* The market: periods, candles and indicator points
\* ------------------------------------------------------------------------
PeriodTs(k) == BaseTs + k * PeriodSeconds

Candle(k, idx) ==
    [timestamp |-> PeriodTs(k), open |-> 100 + k, high |-> 110 + k,
     low |-> 90 + k, close |-> 105 + k, volume |-> 1000 + k, index |-> idx]

IndexKeys == {"0", "1", "2", "4", "5"}
KeyNum(key) ==
    CASE key = "0" -> 0 [] key = "1" -> 1 [] key = "2" -> 2
      [] key = "4" -> 4 [] key = "5" -> 5

\* a point carrying every positional value, and one carrying only "0"
FullVals(v) == [key \in IndexKeys |-> v + KeyNum(key)]
PartialVals(v) == [key \in {"0"} |-> v]

\* ------------------------------------------------------------------------
\* validate_indicators (validators.py:187-228)
\* ------------------------------------------------------------------------
IndicatorNames == {"RSI", "rsi", "MACD", "CCI", "BB", "FOO"}

\* str.upper() on the names of the model
Upper(name) == IF name = "rsi" THEN "RSI" ELSE name

InMapping(u) == \E n \in 1..Len(INDICATOR_MAPPING) : INDICATOR_MAPPING[n].short = u
MappingFor(u) ==
    INDICATOR_MAPPING[CHOOSE n \in 1..Len(INDICATOR_MAPPING) : INDICATOR_MAPPING[n].short = u]

NotRecognized(indicator) ==
    [kind |-> "not_recognized", indicator |-> indicator, valid |-> VALID_INDICATORS]

MoreThanMax(n) ==
    [kind |-> "more_than_max", max |-> MAX_INDICATORS_PER_REQUEST, requested |-> n]

\* lines 217-226
RECURSIVE ValidateEach(_)
ValidateEach(indicators) ==
    IF indicators = << >>
    THEN [ids |-> << >>, versions |-> << >>, errors |-> << >>]
    ELSE LET rest == ValidateEach(Tail(indicators))
             u == Upper(Head(indicators))
         IN IF InMapping(u)
            THEN [ids |-> <<MappingFor(u).key>> \o rest.ids,
                  versions |-> <<MappingFor(u).version>> \o rest.versions,
                  errors |-> rest.errors]
            ELSE [ids |-> rest.ids, versions |-> rest.versions,
                  errors |-> <<NotRecognized(Head(indicators))>> \o rest.errors]

validate_indicators(indicators) ==
    LET r == ValidateEach(indicators)
    IN [indicator_ids |-> r.ids, indicator_versions |-> r.versions, errors |-> r.errors,
        warnings |-> IF Len(indicators) > MAX_INDICATORS_PER_REQUEST
                     THEN <<MoreThanMax(Len(indicators))>> ELSE << >>]

\* ------------------------------------------------------------------------
\* The market data source (Streamer.stream)
\* ------------------------------------------------------------------------
StreamKinds == {"exception", "full", "no_ohlc", "no_indicator", "with_errors"}

NoResp == [kind |-> "none", has_ohlc |-> FALSE, ohlc |-> << >>,
           indicator |-> << >>, errors |-> << >>]

Min(a, b) == IF a < b THEN a ELSE b

\* the newest `periods` periods as of period L (periods 0..L exist)
LatestPeriods(periods, L) ==
    LET m == Min(periods, L + 1) IN [i \in 1..m |-> L - m + i]

KeyBase(id) ==
    1000 * (CHOOSE n \in 1..Len(INDICATOR_MAPPING) : INDICATOR_MAPPING[n].key = id)

\* the value of a point: the point of the period still forming differs from
\* its final value
PointValue(id, k, L) == KeyBase(id) + 10 * k + (IF k = L THEN 5 ELSE 0)

RECURSIVE DistinctKeys(_)
DistinctKeys(ids) ==
    IF ids = << >> THEN << >>
    ELSE LET rest == DistinctKeys(Tail(ids))
         IN IF Head(ids) \in Range(rest) THEN rest ELSE <<Head(ids)>> \o rest

SeriesFor(id, ks, L) ==
    [i \in 1..Len(ks) |->
        [timestamp |-> PeriodTs(ks[i]), vals |-> FullVals(PointValue(id, ks[i], L))]]

UpstreamError == [kind |-> "upstream_error"]

\* the dict returned by stream(numb_price_candles=periods, indicator_id=ids)
StreamResponse(kind, periods, ids, L) ==
    LET ks == LatestPeriods(periods, L)
        ohlc == [i \in 1..Len(ks) |-> Candle(ks[i], i - 1)]
        keys == DistinctKeys(ids)
        indicator == [n \in 1..Len(keys) |->
                        [key |-> keys[n], values |-> SeriesFor(keys[n], ks, L)]]
    IN [kind |-> kind,
        has_ohlc |-> kind # "no_ohlc",
        ohlc |-> IF kind = "no_ohlc" THEN << >> ELSE ohlc,
        indicator |-> IF kind = "no_indicator" THEN << >> ELSE indicator,
        errors |-> IF kind = "with_errors" THEN <<UpstreamError>> ELSE << >>]

\* resp.get('ohlc', [])
RespOhlc(resp) == IF resp.has_ohlc THEN resp.ohlc ELSE << >>

\* ------------------------------------------------------------------------
\* get_valid_jwt_token as one step: the body runs under the lock
\* ------------------------------------------------------------------------
GetValidJwtToken(cache, ct, force, o) ==
    LET chk == CacheCheck(force, cache, ct)
    IN CASE chk = "cached" ->
                [outcome |-> "cached", token |-> cache.token, cache |-> cache,
                 called |-> FALSE]
         [] chk = "type_error" ->
                [outcome |-> "type_error", token |-> NoToken, cache |-> cache,
                 called |-> FALSE]
         [] OTHER ->
                IF TokenAccepted(o)
                THEN [outcome |-> "new", token |-> o.token,
                      cache |-> [token |-> o.token, expiry |-> NewExpiry(o.token, ct)],
                      called |-> TRUE]
                ELSE [outcome |-> "value_error", token |-> NoToken,
                      cache |-> CacheAfterProvider(cache, o), called |-> TRUE]

\* ------------------------------------------------------------------------
\* fetch_historical_data (tradingview_tools.py:105-336)
\* ------------------------------------------------------------------------
NoMessage == [kind |-> "none"]
NoMetadata == [candles_count |-> None, batches |-> None, indicators |-> << >>]
NoResult ==
    [kind |-> "none", success |-> FALSE, data |-> << >>, errors |-> << >>,
     warnings |-> << >>, message |-> NoMessage, metadata |-> NoMetadata]

\* raise ValidationError(...) out of the function (lines 132-147)
RaisedResult(cause) ==
    [NoResult EXCEPT !.kind = "raise", !.message = [kind |-> "ValidationError", cause |-> cause]]

\* the success=False dicts of lines 153-158 and 323-336
FailResult(errors, message) ==
    [NoResult EXCEPT !.kind = "return", !.errors = errors, !.message = message]

ValidationFailed(errors) == [kind |-> "validation_failed", errors |-> errors]
\* except ValueError: errors + [str(e)]
DataError(cause) == [kind |-> "data_processing_error", cause |-> cause]
\* except Exception: errors + ["TradingView API error: ..."]
ApiError(cause) == [kind |-> "tradingview_api_error", cause |-> cause]

TokenGenerationFailed == [kind |-> "token_generation_failed"]
BatchFailed(batch_index, cause) ==
    [kind |-> "batch_failed", batch |-> batch_index, cause |-> cause]

NoFetch ==
    [pc |-> "idle", indicators |-> << >>, numb_price_candles |-> 0,
     indicator_ids |-> << >>, indicator_versions |-> << >>,
     errors |-> << >>, warnings |-> << >>, jwt_token |-> NoToken,
     batched_ids |-> << >>, batched_versions |-> << >>,
     fetch_errors |-> << >>, batch_results |-> << >>, completed |-> << >>,
     resp |-> NoResp, result |-> NoResult]

FetchIdle ==
    /\ fh = NoFetch
    /\ wk = << >>
    /\ latest = 0
    /\ provider_calls = 0
    /\ stream_calls = {}

\* line 144
CandlesInRange(n) == ~(n < MinCandles \/ n > MaxCandles)

\* variant: only a list without any recognized name stops the call
ValidationFatal_OnlyAllBad(v) == v.errors # << >> /\ v.indicator_ids = << >>

\* line 152: `if errors:`
ValidationFatal(v) == v.errors # << >>

\* variant: the cookie is not looked at
CookieSet_Always(c) == TRUE

\* line 162: os.getenv("TRADINGVIEW_COOKIE") is set
CookieSet(c) == c # NoCookie

\* lines 208-209: [s[i:i+BATCH_SIZE] for i in range(0, len(s), BATCH_SIZE)]
Batched(s) ==
    LET starts == {i \in 0..(Len(s) - 1) : i % BATCH_SIZE = 0}
    IN [b \in 1..Cardinality(starts) |->
            SubSeq(s, (b - 1) * BATCH_SIZE + 1, Min(b * BATCH_SIZE, Len(s)))]

\* variant: every batch asks for the same number of periods
FetchCandles_NoExtra(numb_price_candles, batch_index) == numb_price_candles

\* lines 223-224
FetchCandles(numb_price_candles, batch_index) == numb_price_candles + batch_index

StreamCall(batch_index, periods, ids, versions, token) ==
    [batch |-> batch_index, periods |-> periods, ids |-> ids,
     versions |-> versions, cred |-> token.cred]

\* lines 131-166: validation of the inputs and the cookie check
FetchStart ==
    /\ fh.pc = "ready"
    /\ LET v == validate_indicators(fh.indicators)
           f0 == [fh EXCEPT !.indicator_ids = v.indicator_ids,
                            !.indicator_versions = v.indicator_versions,
                            !.errors = v.errors, !.warnings = v.warnings]
       IN fh' =
            IF ~CandlesInRange(fh.numb_price_candles)
            THEN [fh EXCEPT !.pc = "done", !.result = RaisedResult("candles_out_of_range")]
            ELSE IF ValidationFatal(v)
            THEN [f0 EXCEPT !.pc = "done",
                            !.result = FailResult(v.errors, ValidationFailed(v.errors))]
            ELSE IF ~CookieSet(cookie)
            THEN [f0 EXCEPT !.pc = "done",
                            !.result = FailResult(v.errors \o <<ApiError("not_connected")>>,
                                                  ApiError("not_connected"))]
            ELSE [f0 EXCEPT !.pc = "main_token"]
    /\ UNCHANGED <<wk, latest, provider_calls, stream_calls, tokenVars, mergeVars, optionVars>>

\* lines 168-172 and 206-261: the token of the main thread; with indicators,
\* the batches are made and one worker per batch is submitted
MainToken ==
    /\ fh.pc = "main_token"
    /\ \E o \in extract_jwt_token(now, cookie) :
        LET r == GetValidJwtToken(token_cache, now, FALSE, o)
            bids == Batched(fh.indicator_ids)
            bvers == Batched(fh.indicator_versions)
        IN /\ token_cache' = r.cache
           /\ provider_calls' = provider_calls + (IF r.called THEN 1 ELSE 0)
           /\ IF r.outcome = "value_error"
              THEN /\ fh' = [fh EXCEPT !.pc = "done",
                        !.result = FailResult(fh.errors \o <<ApiError("token_failed")>>,
                                              ApiError("token_failed"))]
                   /\ wk' = wk
              ELSE IF r.outcome = "type_error"
              THEN /\ fh' = [fh EXCEPT !.pc = "done",
                        !.result = FailResult(fh.errors \o <<ApiError("type_error")>>,
                                              ApiError("type_error"))]
                   /\ wk' = wk
              ELSE IF fh.indicator_ids = << >>
              THEN /\ fh' = [fh EXCEPT !.pc = "candles_only", !.jwt_token = r.token]
                   /\ wk' = wk
              ELSE /\ fh' = [fh EXCEPT !.pc = "running", !.jwt_token = r.token,
                                       !.batched_ids = bids, !.batched_versions = bvers]
                   /\ wk' = [i \in 0..(Len(bids) - 1) |->
                                [pc |-> "submitted", token |-> NoToken]]
    /\ UNCHANGED <<token_lock, now, cookie, tok, latest, stream_calls, mergeVars, optionVars>>

\* lines 175-204: no indicators, one fetch of the candles
CandlesOnly ==
    /\ fh.pc = "candles_only"
    /\ \E kind \in StreamKinds \ {"no_indicator", "with_errors"} :
        LET resp == StreamResponse(kind, fh.numb_price_candles, << >>, latest)
            merged == merge_ohlc_with_indicators(
                        [ohlc |-> RespOhlc(resp), indicator |-> resp.indicator])
        IN fh' =
            IF kind = "exception"
            THEN [fh EXCEPT !.pc = "done",
                    !.result = FailResult(fh.errors \o <<ApiError("stream_failed")>>,
                                          ApiError("stream_failed"))]
            ELSE IF merged.raised
            THEN [fh EXCEPT !.pc = "done", !.resp = resp,
                    !.result = FailResult(fh.errors \o <<DataError("no_ohlc_in_response")>>,
                                          DataError("no_ohlc_in_response"))]
            ELSE [fh EXCEPT !.pc = "done", !.resp = resp,
                    !.result = [NoResult EXCEPT !.kind = "return", !.success = TRUE,
                        !.data = merged.out, !.errors = fh.errors,
                        !.metadata = [candles_count |-> Len(merged.out),
                                      batches |-> None,
                                      indicators |-> fh.indicators]]]
    /\ stream_calls' = stream_calls \cup
            {StreamCall(None, fh.numb_price_candles, << >>, << >>, fh.jwt_token)}
    /\ UNCHANGED <<wk, latest, provider_calls, tokenVars, mergeVars, optionVars>>

\* lines 265-272: the main thread takes the result of a completed future
Collected(f, batch_index, resp, error) ==
    IF error # NoMessage
    THEN [f EXCEPT !.fetch_errors = Append(@, error)]
    ELSE [f EXCEPT !.batch_results = (batch_index :> resp) @@ @,
                   !.completed = Append(@, batch_index)]

\* lines 226-230 of fetch_batch: the token of the batch
BatchToken(i) ==
    /\ fh.pc = "running"
    /\ wk[i].pc = "submitted"
    /\ \E o \in extract_jwt_token(now, cookie) :
        LET r == GetValidJwtToken(token_cache, now, FALSE, o)
        IN /\ token_cache' = r.cache
           /\ provider_calls' = provider_calls + (IF r.called THEN 1 ELSE 0)
           /\ IF r.outcome = "value_error"
              THEN /\ wk' = [wk EXCEPT ![i].pc = "finished"]
                   /\ fh' = Collected(fh, i, NoResp, TokenGenerationFailed)
              ELSE IF r.outcome = "type_error"
              THEN /\ wk' = [wk EXCEPT ![i].pc = "finished"]
                   /\ fh' = Collected(fh, i, NoResp, BatchFailed(i, "type_error"))
              ELSE /\ wk' = [wk EXCEPT ![i] = [pc |-> "stream", token |-> r.token]]
                   /\ fh' = fh
    /\ UNCHANGED <<token_lock, now, cookie, tok, latest, stream_calls, mergeVars, optionVars>>

\* lines 232-253 of fetch_batch: the fetch of the batch
BatchStream(i) ==
    /\ fh.pc = "running"
    /\ wk[i].pc = "stream"
    /\ LET periods == FetchCandles(fh.numb_price_candles, i)
           ids == fh.batched_ids[i + 1]
           versions == fh.batched_versions[i + 1]
       IN /\ stream_calls' = stream_calls \cup
                {StreamCall(i, periods, ids, versions, wk[i].token)}
          /\ \E kind \in StreamKinds :
                fh' = IF kind = "exception"
                      THEN Collected(fh, i, NoResp, BatchFailed(i, "stream_failed"))
                      ELSE Collected(fh, i, StreamResponse(kind, periods, ids, latest),
                                     NoMessage)
    /\ wk' = [wk EXCEPT ![i] = [pc |-> "finished", token |-> NoToken]]
    /\ UNCHANGED <<latest, provider_calls, tokenVars, mergeVars, optionVars>>

\* line 275: sorted(batch_results.keys())
SortedResults(batch_results) ==
    LET idx == DOMAIN batch_results
        Rank(i) == Cardinality({j \in idx : j < i}) + 1
    IN [k \in 1..Cardinality(idx) |->
            batch_results[CHOOSE i \in idx : Rank(i) = k]]

\* combined_response['ohlc'], None until it is assigned
NoOhlc == [is_none |-> TRUE, ohlc |-> << >>]

\* lines 279-280
OhlcAfter(cur, resp) ==
    IF cur.is_none THEN [is_none |-> FALSE, ohlc |-> RespOhlc(resp)] ELSE cur

RECURSIVE CombineOhlc(_, _)
CombineOhlc(cur, resps) ==
    IF resps = << >> THEN cur
    ELSE CombineOhlc(OhlcAfter(cur, resps[1]), Tail(resps))

\* lines 284-287 for one key
DictExtend(d, key, values) ==
    IF DictHas(d, key)
    THEN [n \in 1..Len(d) |->
            IF d[n].key = key THEN [d[n] EXCEPT !.values = @ \o values] ELSE d[n]]
    ELSE Append(d, [key |-> key, values |-> values])

RECURSIVE ExtendAll(_, _)
ExtendAll(d, items) ==
    IF items = << >> THEN d
    ELSE ExtendAll(DictExtend(d, items[1].key, items[1].values), Tail(items))

\* lines 283-287 over the responses in batch order
RECURSIVE CombineIndicator(_, _)
CombineIndicator(d, resps) ==
    IF resps = << >> THEN d
    ELSE CombineIndicator(ExtendAll(d, resps[1].indicator), Tail(resps))

\* lines 277-291 over the responses in the order they are processed
CombinedOf(resps) ==
    [ohlc |-> CombineOhlc(NoOhlc, resps).ohlc,
     indicator |-> CombineIndicator(<< >>, resps),
     errors |-> ConcatAll([n \in 1..Len(resps) |-> resps[n].errors])]

\* lines 275-291
combined_response(batch_results) == CombinedOf(SortedResults(batch_results))

\* variant: the results are processed in the order the batches completed
ProcessingOrder_AsCompleted(keys) == keys

\* line 275: sorted(batch_results.keys()), keys being the keys of the dict
\* in the order they were inserted, the order of completion
ProcessingOrder(keys) ==
    [k \in 1..Len(keys) |->
        CHOOSE i \in Range(keys) : Cardinality({j \in Range(keys) : j < i}) = k - 1]

\* line 276
ResultsInOrder(batch_results, order) == [k \in 1..Len(order) |-> batch_results[order[k]]]

\* lines 301-304
HasMergeErrors(merged) ==
    merged # << >> /\ MergeErrorsKey \in DOMAIN merged[Len(merged)]
MergeErrorsOf(merged) ==
    IF HasMergeErrors(merged) THEN merged[Len(merged)][MergeErrorsKey] ELSE << >>
\* variant: the last element stays in the rows
WithoutMergeErrors_Kept(merged) == merged

WithoutMergeErrors(merged) ==
    IF HasMergeErrors(merged) THEN SubSeq(merged, 1, Len(merged) - 1) ELSE merged

\* lines 323-329 after the raise of line 295
NoOhlcResult(f, fetch_errors) ==
    FailResult(f.errors \o <<DataError("no_ohlc_across_batches")>>,
               DataError("no_ohlc_across_batches"))

\* lines 274-321 and 323-329: all futures are done; the results are processed
\* in batch order, merged and returned
ProcessResults ==
    /\ fh.pc = "running"
    /\ \A i \in DOMAIN wk : wk[i].pc = "finished"
    /\ LET combined == CombinedOf(ResultsInOrder(fh.batch_results,
                                                  ProcessingOrder(fh.completed)))
           fetch_errors == fh.fetch_errors \o combined.errors
           merged == merge_ohlc_with_indicators(
                        [ohlc |-> combined.ohlc, indicator |-> combined.indicator]).out
           merged_data == WithoutMergeErrors(merged)
       IN fh' =
            IF combined.ohlc = << >>
            THEN [fh EXCEPT !.pc = "done", !.fetch_errors = fetch_errors,
                            !.result = NoOhlcResult(fh, fetch_errors)]
            ELSE [fh EXCEPT !.pc = "done", !.fetch_errors = fetch_errors,
                    !.result = [NoResult EXCEPT !.kind = "return", !.success = TRUE,
                        !.data = merged_data,
                        !.errors = fh.errors \o fetch_errors \o MergeErrorsOf(merged),
                        !.warnings = fh.warnings,
                        !.metadata = [candles_count |-> Len(merged_data),
                                      batches |-> Len(fh.batched_ids),
                                      indicators |-> fh.indicators]]]
    /\ UNCHANGED <<wk, latest, provider_calls, stream_calls, tokenVars, mergeVars, optionVars>>

\* the market data source gets a new period while the fetch runs
NewPeriod ==
    /\ fh.pc \in {"main_token", "candles_only", "running"}
    /\ latest < InitLatest + MaxDrift
    /\ latest' = latest + 1
    /\ UNCHANGED <<fh, wk, provider_calls, stream_calls, tokenVars, mergeVars, optionVars>>

\* ------------------------------------------------------------------------
\* process_option_chain_with_analysis (tradingview_tools.py:732-1133)
\* ------------------------------------------------------------------------
\* Prices (spot, strike, theoPrice, intrinsic and time value) are counted in
\* thousandths and deltas in hundred-thousandths, so that round(x, 2) and
\* round(x, 4) both round to a multiple of 10. The other quote fields (ask,
\* bid, gamma, theta, vega, rho, iv, bid_iv, ask_iv) are copied unchanged
\* from the row to the leg and are left out.

\* round(x, 2) on thousandths and round(x, 4) on hundred-thousandths
\* (a tie goes to the even multiple)
RoundTo10(x) ==
    LET q == x \div 10
        r == x % 10
    IN IF r < 5 THEN 10 * q
       ELSE IF r > 5 THEN 10 * (q + 1)
       ELSE IF q % 2 = 0 THEN 10 * q ELSE 10 * (q + 1)

Max(a, b) == IF a > b THEN a ELSE b
Abs(a) == IF a < 0 THEN 0 - a ELSE a

\* An option symbol as the scanner returns it: exchange, root, the expiry
\* date, C or P, the strike. The docstring writes the date with six digits
\* ('NSE:NIFTY251202C25700'); the parsing of lines 1040-1049 reads eight.
SymbolFormats == {"yymmdd", "yyyymmdd"}
NoSymbol == [fmt |-> "none", expiry |-> None, letter |-> "none", strike |-> None]
OptionSymbol(fmt, expiry, letter, strike) ==
    [fmt |-> fmt, expiry |-> expiry, letter |-> letter, strike |-> strike]

\* lines 1042-1054 and 1083-1093: int(symbol.split('C' or 'P')[0][-8:]);
\* None stands for the ValueError of int()
ExpiryPart(symbol) == IF symbol.fmt = "yyyymmdd" THEN symbol.expiry ELSE None

\* str(expiry) in opt.get('symbol', ''), expiry an 8-digit date or None
SymbolHas(symbol, expiry) ==
    expiry # None /\ symbol.fmt = "yyyymmdd" /\ symbol.expiry = expiry

NoLeg ==
    [symbol |-> NoSymbol, delta |-> None, theo_price |-> 0,
     intrinsic_value |-> 0, time_value |-> 0]

\* variant: the difference is not cut at zero
Intrinsic_Signed(option_type, strike, spot_price) ==
    IF option_type = "call" THEN spot_price - strike ELSE strike - spot_price

\* lines 934-938
Intrinsic(option_type, strike, spot_price) ==
    IF option_type = "call" THEN Max(0, spot_price - strike)
    ELSE Max(0, strike - spot_price)

\* line 940: theoPrice if it is there and not zero, else 0
TheoPrice(row) == IF row.theoPrice # None /\ row.theoPrice # 0 THEN row.theoPrice ELSE 0

\* lines 934-959: option_info of one row
OptionInfo(row, spot_price) ==
    LET intrinsic == Intrinsic(row.option_type, row.strike, spot_price)
        time_value == TheoPrice(row) - intrinsic
    IN [symbol |-> row.s, delta |-> row.delta, theo_price |-> TheoPrice(row),
        intrinsic_value |-> RoundTo10(intrinsic),
        time_value |-> RoundTo10(time_value)]

\* lines 926-932
NewStrikeEntry(strike, spot_price) ==
    [strike |-> strike, call |-> NoLeg, put |-> NoLeg,
     distance_from_spot |-> Abs(strike - spot_price)]

\* lines 926-961 within one expiry: strikes_dict as the sequence of its
\* entries in insertion order
PutLeg(strikes, row, spot_price) ==
    LET has == \E n \in 1..Len(strikes) : strikes[n].strike = row.strike
        base == IF has THEN strikes ELSE Append(strikes, NewStrikeEntry(row.strike, spot_price))
    IN [n \in 1..Len(base) |->
            IF base[n].strike # row.strike THEN base[n]
            ELSE IF row.option_type = "call"
                 THEN [base[n] EXCEPT !.call = OptionInfo(row, spot_price)]
                 ELSE [base[n] EXCEPT !.put = OptionInfo(row, spot_price)]]

\* lines 905-961 for one row: expiry_groups as the sequence of its
\* [expiration, strikes] items in insertion order
AddRow(groups, row, spot_price) ==
    IF row.strike = None \/ row.option_type = "none" \/ row.expiration = None
    THEN groups
    ELSE LET has == \E g \in 1..Len(groups) : groups[g].expiration = row.expiration
             base == IF has THEN groups
                     ELSE Append(groups, [expiration |-> row.expiration, strikes |-> << >>])
         IN [g \in 1..Len(base) |->
                IF base[g].expiration = row.expiration
                THEN [base[g] EXCEPT !.strikes = PutLeg(@, row, spot_price)]
                ELSE base[g]]

RECURSIVE GroupRows(_, _, _)
GroupRows(groups, rows, spot_price) ==
    IF rows = << >> THEN groups
    ELSE GroupRows(AddRow(groups, rows[1], spot_price), Tail(rows), spot_price)

\* lines 903-961
expiry_groups(symbols_data, spot_price) == GroupRows(<< >>, symbols_data, spot_price)

\* line 969: sorted(strikes_dict.values(), key=lambda x: x['strike'])
all_strikes_by_price(strikes) ==
    LET Rank(n) == Cardinality({m \in 1..Len(strikes) : strikes[m].strike < strikes[n].strike}) + 1
    IN [k \in 1..Len(strikes) |-> strikes[CHOOSE n \in 1..Len(strikes) : Rank(n) = k]]

\* lines 972-976: the 0-based index of the first strike >= spot_price, and 0
\* when the loop ends without a break
AtmIndex(sorted, spot_price) ==
    LET at == {i \in 0..(Len(sorted) - 1) : sorted[i + 1].strike >= spot_price}
    IN IF at = {} THEN 0 ELSE CHOOSE i \in at : \A j \in at : i <= j

\* variant: the ITM strikes are taken from the low end of the pool
ItmSlice_Lowest(pool, actual_itm) == SubSeq(pool, 1, actual_itm)

\* line 986: pool[-actual_itm:] if actual_itm > 0 else []
ItmSlice(pool, actual_itm) ==
    IF actual_itm > 0 THEN SubSeq(pool, Len(pool) - actual_itm + 1, Len(pool)) ELSE << >>

\* lines 978-987
StrikeSelection(strikes, spot_price, top_n) ==
    LET sorted == all_strikes_by_price(strikes)
        atm_index == AtmIndex(sorted, spot_price)
        itm_pool == SubSeq(sorted, 1, atm_index)
        otm_pool == SubSeq(sorted, atm_index + 1, Len(sorted))
        actual_itm == Min(top_n, Len(itm_pool))
        actual_otm == Min(top_n, Len(otm_pool))
    IN [available_itm |-> Len(itm_pool), available_otm |-> Len(otm_pool),
        itm_strikes |-> ItmSlice(itm_pool, actual_itm),
        otm_strikes |-> SubSeq(otm_pool, 1, actual_otm)]

\* lines 989-1006
InsufficientStrikes(expiration, side, top_n, available) ==
    [kind |-> "insufficient_strikes", expiry |-> expiration, side |-> side,
     requested |-> top_n, available |-> available]
SideWarnings(expiration, top_n, sel) ==
    (IF sel.available_itm < top_n
     THEN <<InsufficientStrikes(expiration, "ITM", top_n, sel.available_itm)>> ELSE << >>)
    \o (IF sel.available_otm < top_n
        THEN <<InsufficientStrikes(expiration, "OTM", top_n, sel.available_otm)>> ELSE << >>)
    \o (IF top_n > sel.available_itm + sel.available_otm
        THEN <<InsufficientStrikes(expiration, "total", top_n,
                                   sel.available_itm + sel.available_otm)>>
        ELSE << >>)

\* lines 1013-1031: the legs of one selected strike
FlatLeg(leg, option, strike_data) ==
    [symbol |-> leg.symbol, delta |-> leg.delta, theo_price |-> leg.theo_price,
     intrinsic_value |-> leg.intrinsic_value, time_value |-> leg.time_value,
     option |-> option, strike_price |-> strike_data.strike,
     distance_from_spot |-> strike_data.distance_from_spot]
StrikeLegs(strike_data) ==
    (IF strike_data.call # NoLeg THEN <<FlatLeg(strike_data.call, "call", strike_data)>>
     ELSE << >>)
    \o (IF strike_data.put # NoLeg THEN <<FlatLeg(strike_data.put, "put", strike_data)>>
        ELSE << >>)

\* lines 967-1031: flat_options and warnings over the expiries in the order
\* of expiry_groups
SelectionOf(group, spot_price, top_n) == StrikeSelection(group.strikes, spot_price, top_n)
GroupLegs(group, spot_price, top_n) ==
    LET sel == SelectionOf(group, spot_price, top_n)
        chosen == sel.itm_strikes \o sel.otm_strikes
    IN ConcatAll([n \in 1..Len(chosen) |-> StrikeLegs(chosen[n])])
AllLegs(groups, spot_price, top_n) ==
    ConcatAll([g \in 1..Len(groups) |-> GroupLegs(groups[g], spot_price, top_n)])
AllWarnings(groups, spot_price, top_n) ==
    ConcatAll([g \in 1..Len(groups) |->
        SideWarnings(groups[g].expiration, top_n,
                     SelectionOf(groups[g], spot_price, top_n))])

\* the expiries that int() reads out of the symbols of the legs
ParsedExpiries(flat_options) ==
    {ExpiryPart(flat_options[n].symbol) : n \in 1..Len(flat_options)} \ {None}
SetMin(S) == CHOOSE x \in S : \A y \in S : x <= y
SetMax(S) == CHOOSE x \in S : \A y \in S : x >= y

\* lines 1038-1063: the expiry the 'latest' mode picks, or None
LatestModeExpiry(flat_options, current_date) ==
    LET available_expiries == ParsedExpiries(flat_options)
        upcoming == {e \in available_expiries : e >= current_date}
    IN IF upcoming # {} THEN SetMin(upcoming)
       ELSE IF available_expiries # {} THEN SetMax(available_expiries)
       ELSE None

WithExpiry(flat_options, expiry) ==
    SelectSeq(flat_options, LAMBDA opt : SymbolHas(opt.symbol, expiry))

\* lines 1033-1074
FilterByExpiry(flat_options, expiry_date, current_date) ==
    IF expiry_date.kind = "none" THEN flat_options
    ELSE IF expiry_date.kind = "latest"
    THEN IF LatestModeExpiry(flat_options, current_date) # None
         THEN WithExpiry(flat_options, LatestModeExpiry(flat_options, current_date))
         ELSE flat_options
    ELSE WithExpiry(flat_options, expiry_date.value)

RECURSIVE SumDelta(_)
SumDelta(legs) == IF legs = << >> THEN 0 ELSE legs[1].delta + SumDelta(Tail(legs))

NoAnalytics ==
    [present |-> FALSE, atm_strike |-> None, total_call_delta |-> 0,
     total_put_delta |-> 0, net_delta |-> 0, total_strikes |-> 0]

\* line 1105: min(strikes, key=lambda x: abs(x - spot_price)), the first of
\* the nearest in the order of the legs
NearestStrike(legs, spot_price) ==
    LET best == {n \in 1..Len(legs) :
                    \A m \in 1..Len(legs) :
                        Abs(legs[n].strike_price - spot_price)
                            <= Abs(legs[m].strike_price - spot_price)}
    IN legs[SetMin(best)].strike_price

\* line 1113
NetDelta(total_call_delta, total_put_delta) == RoundTo10(total_call_delta + total_put_delta)

\* line 1095
AnalysedExpiry(flat_options) ==
    IF ParsedExpiries(flat_options) # {} THEN SetMax(ParsedExpiries(flat_options)) ELSE None

\* lines 1098-1101: the legs the analytics are made of; a delta of None makes
\* sum() raise TypeError
latest_expiry_options(flat_options) == WithExpiry(flat_options, AnalysedExpiry(flat_options))
DeltaMissing(flat_options) ==
    \E n \in 1..Len(latest_expiry_options(flat_options)) :
        latest_expiry_options(flat_options)[n].delta = None

\* lines 1076-1115 when flat_options is not empty and no delta is missing
Analytics(flat_options, spot_price) ==
    LET legs == latest_expiry_options(flat_options)
        total_call_delta == SumDelta(SelectSeq(legs, LAMBDA opt : opt.option = "call"))
        total_put_delta == SumDelta(SelectSeq(legs, LAMBDA opt : opt.option = "put"))
    IN [present |-> TRUE,
        atm_strike |-> IF legs # << >> THEN NearestStrike(legs, spot_price) ELSE spot_price,
        total_call_delta |-> RoundTo10(total_call_delta),
        total_put_delta |-> RoundTo10(total_put_delta),
        net_delta |-> NetDelta(total_call_delta, total_put_delta),
        total_strikes |-> Cardinality({legs[n].strike_price : n \in 1..Len(legs)})]

\* lines 986-987 for every expiry: the strikes of itm_strikes and otm_strikes
StrikesOf(entries) == [n \in 1..Len(entries) |-> entries[n].strike]
Selections(groups, spot_price, top_n) ==
    [g \in 1..Len(groups) |->
        [expiration |-> groups[g].expiration,
         itm_strikes |-> StrikesOf(SelectionOf(groups[g], spot_price, top_n).itm_strikes),
         otm_strikes |-> StrikesOf(SelectionOf(groups[g], spot_price, top_n).otm_strikes)]]

\* the largest count of strikes per side the callers let through
MaxStrikeCount == 20

\* the dicts the function returns
NoOptionResult ==
    [kind |-> "none", success |-> FALSE, message |-> "none", spot_price |-> None,
     latest_expiry |-> None, analytics |-> NoAnalytics, data |-> << >>,
     has_warnings |-> FALSE, warnings |-> << >>]
OptionFailure(message) ==
    [NoOptionResult EXCEPT !.kind = "return", !.message = message]

\* lines 902-1133: the result of the analysis of the fetched rows
AnalysisResult(symbols_data, spot_price, top_n, expiry_date, current_date) ==
    LET groups == expiry_groups(symbols_data, spot_price)
        warnings == AllWarnings(groups, spot_price, top_n)
        flat_options == FilterByExpiry(AllLegs(groups, spot_price, top_n),
                                       expiry_date, current_date)
    IN IF flat_options # << >> /\ DeltaMissing(flat_options)
       THEN OptionFailure("failed_to_process")
       ELSE [NoOptionResult EXCEPT
                !.kind = "return", !.success = TRUE, !.spot_price = spot_price,
                !.latest_expiry = IF flat_options # << >> THEN AnalysedExpiry(flat_options)
                                  ELSE None,
                !.analytics = IF flat_options # << >> THEN Analytics(flat_options, spot_price)
                              ELSE NoAnalytics,
                !.data = flat_options,
                !.has_warnings = (warnings # << >>),
                !.warnings = warnings]

\* the expiry_date argument: None, 'latest', a date, or another text
NoExpiry == [kind |-> "none", value |-> None]
NoSpot == [success |-> FALSE, spot_price |-> None]
NoChain == [success |-> FALSE, symbols |-> << >>]

NoAnalysis ==
    [pc |-> "idle", requested |-> 0, top_n |-> 0, expiry_date |-> NoExpiry, current_date |-> None,
     spot_result |-> NoSpot, option_result |-> NoChain, selection |-> << >>,
     result |-> NoOptionResult]

OptionIdle ==
    /\ oc = NoAnalysis
    /\ oc_calls = << >>

\* ------------------------------------------------------------------------
\* The option data of the scanner
\* ------------------------------------------------------------------------
Strike(i) == FirstStrike + StrikeStep * (i - 1)
StrikeIndexes == 1..StrikeCount

CallDelta(quotes, i) ==
    IF quotes = "absent" THEN None ELSE 50000 + (IF quotes = "fine" THEN 4 ELSE 0)
PutDelta(quotes, i) ==
    IF quotes = "absent" THEN None ELSE 0 - (49990 + (IF quotes = "fine" THEN 6 ELSE 0))
TheoOf(quotes, i) ==
    IF quotes = "absent" THEN None ELSE 150000 + 1000 * i + (IF quotes = "fine" THEN 7 ELSE 0)

OptionRow(fmt, expiration, option_type, i, quotes) ==
    [s |-> OptionSymbol(fmt, expiration, IF option_type = "call" THEN "C" ELSE "P", Strike(i)),
     strike |-> Strike(i), option_type |-> option_type, expiration |-> expiration,
     delta |-> IF option_type = "call" THEN CallDelta(quotes, i) ELSE PutDelta(quotes, i),
     theoPrice |-> TheoOf(quotes, i)]

\* a row whose values list is too short to hold a strike
ShortRow(fmt, expiration) ==
    [s |-> OptionSymbol(fmt, expiration, "C", None), strike |-> None,
     option_type |-> "call", expiration |-> expiration, delta |-> None, theoPrice |-> None]

\* the rows of one expiry, highest strike first: a call per strike and, with
\* legs = "both", a put per strike
RECURSIVE ExpiryRows(_, _, _, _, _)
ExpiryRows(fmt, expiration, idx, legs, quotes) ==
    IF idx = {} THEN << >>
    ELSE LET i == SetMax(idx)
         IN <<OptionRow(fmt, expiration, "call", i, quotes)>>
            \o (IF legs = "both" THEN <<OptionRow(fmt, expiration, "put", i, quotes)>> ELSE << >>)
            \o ExpiryRows(fmt, expiration, idx \ {i}, legs, quotes)

\* the option chains of the underlying: any set of strikes for the first
\* expiry, the second expiry absent or with the two middle strikes
OptionChains ==
    {<<ShortRow(fmt, FirstExpiry)>>
        \o ExpiryRows(fmt, FirstExpiry, idx, legs, quotes)
        \o (IF second THEN ExpiryRows(fmt, SecondExpiry, {2, 3} \cap StrikeIndexes, "both", quotes)
            ELSE << >>) :
        fmt \in SymbolFormats, idx \in SUBSET StrikeIndexes, legs \in {"both", "calls"},
        quotes \in {"round", "fine", "absent"}, second \in BOOLEAN}

\* fetch_option_chain_data: a failure, or the rows of the chain, only those
\* of the expiry when the request filters on one
ChainResults(fetch_expiry) ==
    {NoChain}
    \cup {[success |-> TRUE,
           symbols |-> IF fetch_expiry = None THEN rows
                       ELSE SelectSeq(rows, LAMBDA row : row.expiration = fetch_expiry)] :
            rows \in OptionChains}

\* get_current_spot_price: a failure, or the close of the underlying
SpotPrices ==
    {FirstStrike + 177850, FirstStrike + 177853, Strike(3),
     FirstStrike - StrikeStep, Strike(StrikeCount) + StrikeStep}
SpotResults == {NoSpot} \cup {[success |-> TRUE, spot_price |-> p] : p \in SpotPrices}

ExpirySelectors ==
    {NoExpiry, [kind |-> "latest", value |-> None], [kind |-> "text", value |-> None]}
    \cup {[kind |-> "date", value |-> e] : e \in {FirstExpiry, SecondExpiry, MissingExpiry}}
TopNs == ((0 - 1)..MaxTopN) \cup {MaxStrikeCount + 1}
CurrentDates == {FirstExpiry - 1, FirstExpiry + 1, SecondExpiry + 1}

\* ------------------------------------------------------------------------
\* The steps of process_option_chain_with_analysis
\* ------------------------------------------------------------------------
\* lines 834-853: top_n
EffectiveTopN(top_n) == IF top_n = 0 THEN 1 ELSE top_n
OptionStart ==
    /\ oc.pc = "ready"
    /\ oc' = IF oc.top_n < 0
             THEN [oc EXCEPT !.pc = "done", !.result = OptionFailure("invalid_top_n")]
             ELSE [oc EXCEPT !.pc = "spot", !.top_n = EffectiveTopN(oc.top_n)]
    /\ UNCHANGED <<oc_calls, tokenVars, mergeVars, fetchVars>>

\* variant: the outcome of the spot price fetch is not looked at
SpotFailed_Never(spot_result) == FALSE

\* line 857: `if not spot_result['success']`
SpotFailed(spot_result) == ~spot_result.success

\* lines 855-863: get_current_spot_price
SpotPrice ==
    /\ oc.pc = "spot"
    /\ \E r \in SpotResults :
        oc' = IF SpotFailed(r)
              THEN [oc EXCEPT !.pc = "done", !.result = OptionFailure("spot_failed")]
              ELSE [oc EXCEPT !.pc = "chain", !.spot_result = r]
    /\ oc_calls' = Append(oc_calls, [fn |-> "get_current_spot_price", expiry |-> None])
    /\ UNCHANGED <<tokenVars, mergeVars, fetchVars>>

\* lines 865-882: an expiry_date that is neither 'latest' nor a number
BadExpiry ==
    /\ oc.pc = "chain"
    /\ oc.expiry_date.kind = "text"
    /\ oc' = [oc EXCEPT !.pc = "done", !.result = OptionFailure("invalid_expiry_format")]
    /\ UNCHANGED <<oc_calls, tokenVars, mergeVars, fetchVars>>

\* lines 865-900: fetch_option_chain_data
FetchExpiry(expiry_date) == IF expiry_date.kind = "date" THEN expiry_date.value ELSE None
ChainFetch ==
    /\ oc.pc = "chain"
    /\ oc.expiry_date.kind # "text"
    /\ \E r \in ChainResults(FetchExpiry(oc.expiry_date)) :
        oc' = IF ~r.success
              THEN [oc EXCEPT !.pc = "done", !.result = OptionFailure("chain_failed")]
              ELSE IF r.symbols = << >>
              THEN [oc EXCEPT !.pc = "done", !.option_result = r,
                              !.result = OptionFailure("no_option_data")]
              ELSE [oc EXCEPT !.pc = "analyse", !.option_result = r]
    /\ oc_calls' = Append(oc_calls, [fn |-> "fetch_option_chain_data",
                                     expiry |-> FetchExpiry(oc.expiry_date)])
    /\ UNCHANGED <<tokenVars, mergeVars, fetchVars>>

\* lines 902-1133: grouping, selection, filter and analytics; the date of
\* today is read in the 'latest' mode only
Analyse ==
    /\ oc.pc = "analyse"
    /\ \E current_date \in CurrentDates :
        /\ (oc.expiry_date.kind # "latest") => current_date = SetMin(CurrentDates)
        /\ oc' = [oc EXCEPT !.pc = "done", !.current_date = current_date,
                    !.selection = Selections(
                        expiry_groups(oc.option_result.symbols, oc.spot_result.spot_price),
                        oc.spot_result.spot_price, oc.top_n),
                    !.result = AnalysisResult(oc.option_result.symbols,
                                              oc.spot_result.spot_price, oc.top_n,
                                              oc.expiry_date, current_date)]
    /\ UNCHANGED <<oc_calls, tokenVars, mergeVars, fetchVars>>

\* ------------------------------------------------------------------------
\* Specification of one fetch_historical_data call
\* ------------------------------------------------------------------------
\* the indicator lists of the model: every list of at most ShortLists names,
\* and the longer lists RSI, MACD, CCI, BB, RSI, ... with and without an
\* unrecognized name at the end
CycleList(n) == [i \in 1..n |-> VALID_INDICATORS[((i - 1) % Len(VALID_INDICATORS)) + 1]]

IndicatorLists ==
    SeqsUpTo(IndicatorNames, ShortLists)
    \cup {CycleList(n) : n \in 0..MaxIndicators}
    \cup {Append(CycleList(n), "FOO") : n \in 0..(MaxIndicators - 1)}

CandleCounts == {MinCandles - 1, MinCandles, MaxCandles, MaxCandles + 1}

\* the caches earlier calls can have left behind: no token, a token that is
\* still good for long, a token without exp claim
PriorCaches ==
    {[token |-> NoToken, expiry |-> 0]}
    \cup {[token |-> tk, expiry |-> NewExpiry(tk, 0)] :
            tk \in {t \in IssuedTokens(0, "A") :
                        get_token_info(t).valid /\ t.exp \notin {SafetyMargin, SafetyMargin + 1}}}

FetchInit ==
    /\ token_cache \in PriorCaches
    /\ token_lock = NoThread
    /\ now = 0
    /\ cookie \in {NoCookie, "A"}
    /\ tok = [t \in Threads |-> IdleFrame]
    /\ MergeIdle
    /\ fh \in {[NoFetch EXCEPT !.pc = "ready", !.indicators = inds,
                               !.numb_price_candles = n] :
                    inds \in IndicatorLists, n \in CandleCounts}
    /\ wk = << >>
    /\ latest = InitLatest
    /\ provider_calls = 0
    /\ stream_calls = {}
    /\ OptionIdle

FetchNext ==
    \/ FetchStart
    \/ MainToken
    \/ CandlesOnly
    \/ \E i \in DOMAIN wk : BatchToken(i)
    \/ \E i \in DOMAIN wk : BatchStream(i)
    \/ ProcessResults
    \/ NewPeriod

SpecFetch == FetchInit /\ [][FetchNext]_vars

Spec == SpecFetch

\* ------------------------------------------------------------------------
\* Specification of merge_ohlc_with_indicators on bounded inputs
\* ------------------------------------------------------------------------
MergeCandleLists ==
    {[i \in 1..n |-> Candle(start + i - 1, i - 1)] : start \in 0..1, n \in 0..MaxRows}

MergePoints ==
    {[timestamp |-> t, vals |-> v] :
        t \in {PeriodTs(k) : k \in 0..MaxRows} \cup {None},
        v \in {FullVals(7), PartialVals(9)}}

AlignedSeries(short, n) ==
    [i \in 1..n |-> [timestamp |-> PeriodTs(i - 1), vals |-> FullVals(20 * i)]]

\* the indicator dict: an RSI series of any shape or none, an aligned MACD
\* series or none, a series under a key the catalog does not know or none
MergeIndicatorDicts ==
    {rsi \o macd \o other :
        rsi \in {<< >>} \cup {<<[key |-> "STD;RSI", values |-> sr]>> :
                                sr \in SeqsUpTo(MergePoints, MaxSeriesLen)},
        macd \in {<< >>, <<[key |-> "STD;MACD", values |-> AlignedSeries("MACD", MaxRows)]>>},
        other \in {<< >>, <<[key |-> "STD;Volume", values |-> AlignedSeries("VOL", 1)]>>}}

\* what fetch_historical_data hands to the merge after two batches that both
\* carry RSI, fetched when the newest period was L0 and then L1
CombinedBatchInputs ==
    {LET c == combined_response(
                (0 :> StreamResponse("full", n, <<"STD;RSI">>, L0))
                @@ (1 :> StreamResponse("full", n + 1, <<"STD;RSI", "STD;MACD">>, L1)))
     IN [ohlc |-> c.ohlc, indicator |-> c.indicator] :
        n \in 1..MaxRows,
        L0 \in InitLatest..(InitLatest + MaxDrift),
        L1 \in InitLatest..(InitLatest + MaxDrift)}

\* the call merge_ohlc_with_indicators(m_data)
MergeCall ==
    /\ m_pc = "ready"
    /\ m_result' = merge_ohlc_with_indicators(m_data)
    /\ m_data' = DataAfterMerge(m_data)
    /\ m_pc' = "done"
    /\ UNCHANGED <<m_orig, m_second, tokenVars, fetchVars, optionVars>>

\* a second call merge_ohlc_with_indicators(m_data) on the same object
MergeAgain ==
    /\ m_pc = "done"
    /\ m_second' = merge_ohlc_with_indicators(m_data)
    /\ m_data' = DataAfterMerge(m_data)
    /\ m_pc' = "again"
    /\ UNCHANGED <<m_orig, m_result, tokenVars, fetchVars, optionVars>>

\* ------------------------------------------------------------------------
\* Specification of the token cache under concurrent callers
\* ------------------------------------------------------------------------
TokenInit ==
    /\ token_cache = [token |-> NoToken, expiry |-> 0]
    /\ token_lock = NoThread
    /\ now = 0
    /\ cookie = "A"
    /\ tok = [t \in Threads |-> IdleFrame]
    /\ MergeIdle
    /\ FetchIdle
    /\ OptionIdle

TokenNext ==
    \/ \E t \in Threads, force \in BOOLEAN : TokenCall(t, force)
    \/ \E t \in Threads : Enter(t)
    \/ \E t \in Threads : ProviderReturns(t)
    \/ \E t \in Threads : StoreToken(t)
    \/ \E t \in Threads : StoreExpiry(t)
    \/ \E t \in Threads : Release(t)
    \/ \E c \in Credentials : CookieOverride(c)
    \/ Tick

SpecToken == TokenInit /\ [][TokenNext]_vars

TokenIdle ==
    /\ token_cache = [token |-> NoToken, expiry |-> 0]
    /\ token_lock = NoThread
    /\ now = 0
    /\ cookie = "A"
    /\ tok = [t \in Threads |-> IdleFrame]

MergeInit ==
    /\ TokenIdle
    /\ FetchIdle
    /\ OptionIdle
    /\ m_pc = "ready"
    /\ m_data \in {[ohlc |-> o, indicator |-> d] :
                      o \in MergeCandleLists, d \in MergeIndicatorDicts}
                  \cup CombinedBatchInputs
    /\ m_orig = m_data
    /\ m_result = NoMergeResult
    /\ m_second = NoMergeResult

MergeNext == MergeCall \/ MergeAgain

SpecMerge == MergeInit /\ [][MergeNext]_vars

\* ------------------------------------------------------------------------
\* Specification of one process_option_chain_with_analysis call
\* ------------------------------------------------------------------------
OptionInit ==
    /\ TokenIdle
    /\ MergeIdle
    /\ FetchIdle
    /\ oc \in {[NoAnalysis EXCEPT !.pc = "ready", !.requested = n, !.top_n = n, !.expiry_date = e] :
                    n \in TopNs, e \in ExpirySelectors}
    /\ oc_calls = << >>

OptionNext ==
    \/ OptionStart
    \/ SpotPrice
    \/ BadExpiry
    \/ ChainFetch
    \/ Analyse

SpecOption == OptionInit /\ [][OptionNext]_vars


\* ------------------------------------------------------------------------
\* Claims about get_valid_jwt_token
\* ------------------------------------------------------------------------
\* threads inside the `with _token_lock:` block
InsidePcs == {"calling", "store_token", "store_expiry", "returning", "raising"}
Inside(t) == tok[t].pc \in InsidePcs

\* the cache as read at line 58 holds a token whose expiry exceeds now + 60
SeenValid(t) ==
    /\ tok[t].seen.token # NoToken
    /\ tok[t].seen.expiry # None
    /\ tok[t].seen.expiry > tok[t].current_time + SafetyMargin

\* C7: a non-forced call returns the cached token without calling the
\* provider exactly when a cached token exists whose expiry is greater than
\* now + 60; in every other case the provider is called and, on success, the
\* cache holds the new token and its expiry and the new token is returned.
C7_CachedIffValid ==
    \A t \in Threads : Inside(t) =>
        /\ (~tok[t].force /\ SeenValid(t)) =>
              /\ tok[t].pc = "returning"
              /\ tok[t].outcome = "cached"
              /\ ~tok[t].called
              /\ tok[t].result = tok[t].seen.token
        /\ ~(~tok[t].force /\ SeenValid(t)) =>
              /\ tok[t].called
              /\ tok[t].outcome # "cached"
              /\ (tok[t].pc = "returning" =>
                    /\ tok[t].outcome = "new"
                    /\ tok[t].result = tok[t].token
                    /\ token_cache.token = tok[t].token
                    /\ (tok[t].token.exp # None => token_cache.expiry = tok[t].token.exp))

\* C8: at most one thread is inside the check-and-refresh section, so no two
\* provider calls overlap, and the cache a thread reads never pairs a token
\* with the expiry of another token.
C8_MutualExclusion ==
    /\ Cardinality({t \in Threads : Inside(t)}) <= 1
    /\ Cardinality({t \in Threads : tok[t].pc = "calling"}) <= 1
    /\ \A t \in Threads : Inside(t) =>
          /\ token_lock = t
          /\ (tok[t].seen.token # NoToken => tok[t].seen.expiry = tok[t].seen.token.exp)

\* a caller waits for the lock while another is between the two cache writes
C8_Witness ==
    \E t1, t2 \in Threads :
        /\ tok[t1].pc = "store_expiry"
        /\ tok[t2].pc = "want"
        /\ token_cache.expiry # tok[t1].token.exp

\* C9: when the provider fails, returns no token or returns a token that does
\* not decode, the call raises with the cache exactly as it was on entry, and
\* the lock is held by nobody who has left the block.
C9_FailureKeepsCache ==
    /\ \A t \in Threads : (tok[t].pc = "raising" /\ tok[t].called) =>
          /\ tok[t].outcome = "value_error"
          /\ token_cache = tok[t].seen
    /\ \A t \in Threads : ~Inside(t) => token_lock # t
    /\ (token_lock # NoThread => Inside(token_lock))

\* a refresh fails while a previously cached token is in the cache
C9_Witness ==
    \E t \in Threads :
        /\ tok[t].pc = "raising"
        /\ tok[t].called
        /\ tok[t].seen.token # NoToken

\* ------------------------------------------------------------------------
\* Claims about merge_ohlc_with_indicators
\* ------------------------------------------------------------------------
IsSentinel(e) == MergeErrorsKey \in DOMAIN e
CandleRows(out) == SelectSeq(out, LAMBDA e : ~IsSentinel(e))
FieldNames(short) ==
    {INDICATOR_FIELD_MAPPING(short)[n][2] : n \in 1..Len(INDICATOR_FIELD_MAPPING(short))}

\* the row carries the fields of the indicator with the values of the point
RowCarries(row, short, point) ==
    \A n \in 1..Len(INDICATOR_FIELD_MAPPING(short)) :
        LET km == INDICATOR_FIELD_MAPPING(short)[n]
        IN /\ km[2] \in DOMAIN row
           /\ row[km[2]] = (IF km[1] \in DOMAIN point.vals THEN point.vals[km[1]] ELSE 0)

\* C10: every row of the merge has exactly one input candle with its
\* timestamp; for every catalog indicator whose input series has a point at
\* that exact timestamp the row carries the indicator's fields with the
\* values of such a point, and for every indicator whose series has no point
\* at that timestamp the row carries none of its fields.
C10_MergeTimestampInvariant ==
    (m_pc = "done" /\ ~m_result.raised) =>
        LET rows == CandleRows(m_result.out)
            ohlc == m_data.ohlc
        IN \A i \in 1..Len(rows) :
            /\ Cardinality({j \in 1..Len(ohlc) :
                    convert_timestamp_to_indian_time(ohlc[j].timestamp)
                        = rows[i].datetime_ist}) = 1
            /\ \E j \in 1..Len(ohlc) :
                /\ convert_timestamp_to_indian_time(ohlc[j].timestamp) = rows[i].datetime_ist
                /\ rows[i].index = ohlc[j].index
                /\ rows[i].close = ohlc[j].close
                /\ \A n \in 1..Len(INDICATOR_MAPPING) :
                    LET short == INDICATOR_MAPPING[n].short
                        key == INDICATOR_MAPPING[n].key
                    IN IF /\ DictHas(m_data.indicator, key)
                          /\ \E q \in 1..Len(DictGet(m_data.indicator, key)) :
                                DictGet(m_data.indicator, key)[q].timestamp = ohlc[j].timestamp
                       THEN \E q \in 1..Len(DictGet(m_data.indicator, key)) :
                                /\ DictGet(m_data.indicator, key)[q].timestamp = ohlc[j].timestamp
                                /\ RowCarries(rows[i], short, DictGet(m_data.indicator, key)[q])
                       ELSE FieldNames(short) \cap DOMAIN rows[i] = {}

\* a merge where one row carries the RSI fields and another row, whose
\* timestamp the RSI series lacks, does not
C10_Witness ==
    /\ m_pc = "done"
    /\ ~m_result.raised
    /\ DictHas(m_data.indicator, "STD;RSI")
    /\ \E i, k \in 1..Len(CandleRows(m_result.out)) :
        /\ "Relative_Strength_Index" \in DOMAIN CandleRows(m_result.out)[i]
        /\ "Relative_Strength_Index" \notin DOMAIN CandleRows(m_result.out)[k]

\* ------------------------------------------------------------------------
\* Claims about fetch_historical_data
\* ------------------------------------------------------------------------
FetchDone == fh.pc = "done"
Unrecognized(inds) == {n \in 1..Len(inds) : ~InMapping(Upper(inds[n]))}
Ceil2(n) == (n + 1) \div 2

\* C1: a call whose indicator list holds at least one name outside the
\* catalog (compared in upper case) returns success=false with a "not
\* recognized" error for that name listing the valid indicators, and calls
\* neither the token provider nor the market data source, whatever the
\* other names are.
C1_UnrecognizedFailsOffline ==
    (FetchDone /\ CandlesInRange(fh.numb_price_candles)
              /\ Unrecognized(fh.indicators) # {}) =>
        /\ fh.result.kind = "return"
        /\ ~fh.result.success
        /\ fh.result.data = << >>
        /\ \A n \in Unrecognized(fh.indicators) :
            \E e \in 1..Len(fh.result.errors) :
                /\ fh.result.errors[e].kind = "not_recognized"
                /\ fh.result.errors[e].indicator = fh.indicators[n]
                /\ fh.result.errors[e].valid = <<"RSI", "MACD", "CCI", "BB">>
        /\ provider_calls = 0
        /\ stream_calls = {}

\* a finished call with a credential whose list mixes a catalog name and an
\* unrecognized one
C1_Witness ==
    /\ FetchDone
    /\ CandlesInRange(fh.numb_price_candles)
    /\ cookie # NoCookie
    /\ Unrecognized(fh.indicators) # {}
    /\ \E n \in 1..Len(fh.indicators) : InMapping(Upper(fh.indicators[n]))
    /\ ~fh.result.success

\* C2: with n >= 1 recognized indicators the call makes ceil(n/2) batches of
\* at most 2 indicators in request order, ids and versions paired, batch N
\* asks the market data source for candleCount + N periods, and
\* metadata.batches is ceil(n/2).
C2_Batching ==
    (fh.batched_ids # << >>) =>
        LET n == Len(fh.indicators)
            ids == fh.batched_ids
            vers == fh.batched_versions
        IN /\ n >= 1
           /\ Len(ids) = Ceil2(n)
           /\ Len(vers) = Ceil2(n)
           /\ \A b \in 1..Len(ids) :
                /\ Len(ids[b]) \in 1..2
                /\ Len(vers[b]) = Len(ids[b])
                /\ \A k \in 1..Len(ids[b]) :
                    LET m == MappingFor(Upper(fh.indicators[2 * (b - 1) + k]))
                    IN ids[b][k] = m.key /\ vers[b][k] = m.version
           /\ ConcatAll(ids) = [k \in 1..n |-> MappingFor(Upper(fh.indicators[k])).key]
           /\ \A c \in stream_calls :
                /\ c.batch \in 0..(Ceil2(n) - 1)
                /\ c.periods = fh.numb_price_candles + c.batch
                /\ c.ids = ids[c.batch + 1]
                /\ c.versions = vers[c.batch + 1]
           /\ (FetchDone /\ fh.result.success) => fh.result.metadata.batches = Ceil2(n)

\* five indicators: three batches, the third one has asked for its periods
\* and the call has returned success
C2_Witness ==
    /\ FetchDone
    /\ Len(fh.indicators) = 5
    /\ fh.result.success
    /\ fh.result.metadata.batches = 3
    /\ \E c \in stream_calls : c.batch = 2 /\ c.periods = fh.numb_price_candles + 2
    /\ \E c \in stream_calls : c.batch = 1 /\ Len(c.ids) = 2

\* a row without any indicator field
NoIndicatorFields(row) ==
    \A n \in 1..Len(INDICATOR_MAPPING) :
        FieldNames(INDICATOR_MAPPING[n].short) \cap DOMAIN row = {}

ZeroIndicators == fh.indicators = << >> /\ CandlesInRange(fh.numb_price_candles)

\* C3 as stated: with an empty indicator list the call needs no credential
\* and acquires no token, issues exactly one candle fetch and, when upstream
\* returns exactly candleCount candles, returns success=true with candleCount
\* rows without indicator fields; a missing credential or a failure of the
\* token provider does not change this.
C3_NoCredentialNeeded ==
    (FetchDone /\ ZeroIndicators) =>
        /\ provider_calls = 0
        /\ Cardinality(stream_calls) = 1
        /\ (Len(fh.resp.ohlc) = fh.numb_price_candles) =>
                /\ fh.result.success
                /\ Len(fh.result.data) = fh.numb_price_candles

\* C3: with an empty indicator list the call needs the configured
\* credential and a session token like any other call: without a credential
\* it returns success=false and calls neither the token provider nor the
\* market data source; when the token cannot be had it returns success=false
\* without a candle fetch; otherwise it issues exactly one candle fetch, for
\* candleCount periods and no indicator, with the token of the cache, and
\* when upstream returns exactly candleCount candles it returns success=true
\* with exactly candleCount rows carrying no indicator fields.
C3_CandlesOnlyNeedsToken ==
    (FetchDone /\ ZeroIndicators) =>
        /\ fh.result.kind = "return"
        /\ provider_calls <= 1
        /\ (cookie = NoCookie) =>
                /\ ~fh.result.success
                /\ fh.result.message = ApiError("not_connected")
                /\ provider_calls = 0
                /\ stream_calls = {}
        /\ (fh.jwt_token = NoToken) => (~fh.result.success /\ stream_calls = {})
        /\ (fh.jwt_token # NoToken) =>
                /\ fh.jwt_token = token_cache.token
                /\ stream_calls =
                    {StreamCall(None, fh.numb_price_candles, << >>, << >>, fh.jwt_token)}
                /\ (fh.resp.kind = "full" /\ Len(fh.resp.ohlc) = fh.numb_price_candles) =>
                        /\ fh.result.success
                        /\ Len(fh.result.data) = fh.numb_price_candles
                        /\ fh.result.metadata.candles_count = fh.numb_price_candles
                        /\ \A n \in 1..Len(fh.result.data) :
                            /\ NoIndicatorFields(fh.result.data[n])
                            /\ fh.result.data[n].close = fh.resp.ohlc[n].close

\* a candle-only call that fetched exactly candleCount candles with a token
\* it had to ask the provider for
C3_Witness ==
    /\ FetchDone
    /\ ZeroIndicators
    /\ provider_calls = 1
    /\ fh.resp.kind = "full"
    /\ Len(fh.resp.ohlc) = fh.numb_price_candles
    /\ fh.result.success

\* the batches whose response holds OHLC data, and the failed batches
Batches == 0..(Len(fh.batched_ids) - 1)
Succeeded == DOMAIN fh.batch_results
WithOhlc == {i \in Succeeded : RespOhlc(fh.batch_results[i]) # << >>}
FailedBatches == Batches \ Succeeded
Lowest(S) == CHOOSE i \in S : \A j \in S : i <= j
BatchesDone == FetchDone /\ fh.batched_ids # << >>

\* the rows are the candles of the OHLC payload, one row per candle
BackboneIs(data, ohlc) ==
    /\ Len(data) = Len(ohlc)
    /\ \A n \in 1..Len(data) :
        \A k \in DOMAIN BaseEntry(ohlc[n]) : data[n][k] = BaseEntry(ohlc[n])[k]

\* C4 as stated: whatever the outcomes of the batches and their completion
\* order, the rows are built on the OHLC payload of the lowest-indexed batch
\* whose response holds OHLC data, and the call fails for lack of OHLC only
\* when no response holds OHLC data.
C4_BackboneLowestWithOhlc ==
    BatchesDone =>
        /\ (fh.result.message = DataError("no_ohlc_across_batches")) <=> (WithOhlc = {})
        /\ (WithOhlc # {}) =>
                /\ fh.result.success
                /\ BackboneIs(fh.result.data, fh.batch_results[Lowest(WithOhlc)].ohlc)

IsBatchFailure(e) == e.kind \in {"batch_failed", "token_generation_failed"}
FailureStrings(errors) == SelectSeq(errors, IsBatchFailure)

\* the series of every successful batch is in the rows: a row whose candle
\* has a point in the series carries the fields of the indicator
SeriesMerged(data, resp) ==
    \A d \in 1..Len(resp.indicator) :
        LET key == resp.indicator[d].key
            short == INDICATOR_MAPPING[CHOOSE n \in 1..Len(INDICATOR_MAPPING) :
                                            INDICATOR_MAPPING[n].key = key].short
        IN \A n \in 1..Len(data) :
            (\E q \in 1..Len(resp.indicator[d].values) :
                convert_timestamp_to_indian_time(resp.indicator[d].values[q].timestamp)
                    = data[n].datetime_ist)
            => FieldNames(short) \subseteq DOMAIN data[n]

\* C5 as stated: when one batch fails, by an exception of its fetch or of
\* its token, while another batch succeeds with OHLC data, every batch still
\* runs to its end, the call returns success=true, the failure is exactly
\* one string of errors, and the series of every successful batch is merged
\* into the rows.
C5_OneFailureTolerated ==
    (BatchesDone /\ Cardinality(FailedBatches) = 1 /\ WithOhlc # {}) =>
        /\ \A i \in Batches : wk[i].pc = "finished"
        /\ fh.result.success
        /\ Len(FailureStrings(fh.result.errors)) = 1
        /\ \A i \in Succeeded : SeriesMerged(fh.result.data, fh.batch_results[i])

\* C6 as stated: every failure message of a batch and every warning of the
\* validation is in the errors or warnings of the returned result, on
\* success and on failure, also when all batches fail.
C6_NothingDropped ==
    (FetchDone /\ fh.result.kind = "return") =>
        /\ \A e \in 1..Len(fh.fetch_errors) :
            \E r \in 1..Len(fh.result.errors) : fh.result.errors[r] = fh.fetch_errors[e]
        /\ \A w \in 1..Len(fh.warnings) :
            \E r \in 1..Len(fh.result.warnings) : fh.result.warnings[r] = fh.warnings[w]

\* ------------------------------------------------------------------------
\* More claims about merge_ohlc_with_indicators
\* ------------------------------------------------------------------------
MergeReturned == m_pc \in {"done", "again"} /\ ~m_result.raised
SeriesOf(data, key) == DictGet(data.indicator, key)
PointsAt(values, ts) == {q \in 1..Len(values) : values[q].timestamp = ts}
FirstOf(S) == CHOOSE q \in S : \A r \in S : q <= r
WarningsFor(out, short, ts, i) ==
    {w \in 1..Len(MergeErrorsOf(out)) : MergeErrorsOf(out)[w] = MissingWarning(short, ts, i)}

C12_FirstPointWins ==
    /\ MergeReturned =>
        LET rows == CandleRows(m_result.out)
        IN \A i \in 1..Len(rows) : \A n \in 1..Len(INDICATOR_MAPPING) :
            LET short == INDICATOR_MAPPING[n].short
                key == INDICATOR_MAPPING[n].key
                ts == m_orig.ohlc[i].timestamp
            IN (DictHas(m_orig.indicator, key)
                    /\ Cardinality(PointsAt(SeriesOf(m_orig, key), ts)) >= 2) =>
                /\ RowCarries(rows[i], short,
                        SeriesOf(m_orig, key)[FirstOf(PointsAt(SeriesOf(m_orig, key), ts))])
                /\ WarningsFor(m_result.out, short, ts, i - 1) = {}
    /\ (m_pc = "done") =>
        \A L0, L1 \in InitLatest..(InitLatest + MaxDrift) :
            LET r0 == StreamResponse("full", 1, <<"STD;RSI">>, L0)
                r1 == StreamResponse("full", 2, <<"STD;RSI">>, L1)
            IN DictGet(combined_response((1 :> r1) @@ (0 :> r0)).indicator, "STD;RSI")
                = DictGet(r0.indicator, "STD;RSI") \o DictGet(r1.indicator, "STD;RSI")

\* a row whose candle has two RSI points with different values
C12_Witness ==
    /\ MergeReturned
    /\ DictHas(m_orig.indicator, "STD;RSI")
    /\ \E i \in 1..Len(CandleRows(m_result.out)) :
        LET pts == PointsAt(SeriesOf(m_orig, "STD;RSI"), m_orig.ohlc[i].timestamp)
        IN /\ Cardinality(pts) >= 2
           /\ \E q, r \in pts :
                /\ q < r
                /\ PointGet(SeriesOf(m_orig, "STD;RSI")[q], "0", 0)
                        # PointGet(SeriesOf(m_orig, "STD;RSI")[r], "0", 0)
           /\ "Relative_Strength_Index" \in DOMAIN CandleRows(m_result.out)[i]

\* the (row, indicator) pairs for which the series has no point
MissingPairs ==
    {<<i, n>> \in (1..Len(m_orig.ohlc)) \X (1..Len(INDICATOR_MAPPING)) :
        /\ DictHas(m_orig.indicator, INDICATOR_MAPPING[n].key)
        /\ PointsAt(SeriesOf(m_orig, INDICATOR_MAPPING[n].key),
                    m_orig.ohlc[i].timestamp) = {}}

IndicatorOfCall ==
    IF fh.batched_ids # << >> THEN combined_response(fh.batch_results).indicator
    ELSE fh.resp.indicator

\* C14: there is no successful result without candles: the merge raises
\* "No OHLC data" on an empty OHLC list, fetch_historical_data returns
\* success=false with empty data and a message when no batch yields OHLC,
\* and a success=true result has at least one row.
C14_NoSuccessWithoutCandles ==
    FetchDone =>
        /\ fh.result.success => Len(fh.result.data) >= 1
        /\ (BatchesDone /\ WithOhlc = {}) =>
                /\ fh.result.kind = "return"
                /\ ~fh.result.success
                /\ fh.result.data = << >>
                /\ fh.result.message = DataError("no_ohlc_across_batches")
        /\ (fh.batched_ids = << >> /\ fh.resp.kind = "no_ohlc") =>
                /\ fh.result.kind = "return"
                /\ ~fh.result.success
                /\ fh.result.data = << >>
                /\ fh.result.message = DataError("no_ohlc_in_response")
        /\ merge_ohlc_with_indicators([ohlc |-> << >>, indicator |-> IndicatorOfCall]).raised

\* batches answered, with indicator series but none with OHLC data
C14_Witness ==
    /\ BatchesDone
    /\ Cardinality(Succeeded) >= 2
    /\ WithOhlc = {}
    /\ IndicatorOfCall # << >>
    /\ ~fh.result.success

\* ------------------------------------------------------------------------
\* Claims about process_option_chain_with_analysis
\* ------------------------------------------------------------------------
Analysed == oc.pc = "done" /\ oc.current_date # None
SpotOfCall == oc.spot_result.spot_price
RowsOfCall == oc.option_result.symbols
GoodRows ==
    {n \in 1..Len(RowsOfCall) :
        RowsOfCall[n].strike # None /\ RowsOfCall[n].expiration # None}
ExpiriesOfCall == {RowsOfCall[n].expiration : n \in GoodRows}
StrikesAt(e) == {RowsOfCall[n].strike : n \in {m \in GoodRows : RowsOfCall[m].expiration = e}}
Below(e) == {k \in StrikesAt(e) : k < SpotOfCall}
AtOrAbove(e) == {k \in StrikesAt(e) : k >= SpotOfCall}
Largest(S, n) == {k \in S : Cardinality({j \in S : j > k}) < n}
Smallest(S, n) == {k \in S : Cardinality({j \in S : j < k}) < n}
Ascending(q) == \A a, b \in 1..Len(q) : a < b => q[a] < q[b]
SelectionFor(e) ==
    oc.selection[CHOOSE g \in 1..Len(oc.selection) : oc.selection[g].expiration = e]

C16_SidesOfSpot ==
    Analysed =>
        \A g \in 1..Len(oc.selection) :
            /\ \A n \in 1..Len(oc.selection[g].itm_strikes) :
                oc.selection[g].itm_strikes[n] < SpotOfCall
            /\ \A n \in 1..Len(oc.selection[g].otm_strikes) :
                oc.selection[g].otm_strikes[n] >= SpotOfCall

HasWarning(e, side) ==
    \E w \in 1..Len(oc.result.warnings) :
        oc.result.warnings[w].expiry = e /\ oc.result.warnings[w].side = side

\* C17 as stated: when more strikes are asked for than an expiry has on one
\* side of spot, all strikes of that side are returned with a warning naming
\* the expiry and the side, the call still returns success=true, and the
\* other side and the other expiries are selected as usual.
C17_ShortSideWarned ==
    (Analysed /\ oc.result.message # "failed_to_process") =>
        /\ oc.result.success
        /\ \A e \in ExpiriesOfCall :
            /\ (Cardinality(Below(e)) < oc.top_n) =>
                    /\ Range(SelectionFor(e).itm_strikes) = Below(e)
                    /\ HasWarning(e, "ITM")
            /\ (Cardinality(AtOrAbove(e)) < oc.top_n) =>
                    /\ Range(SelectionFor(e).otm_strikes) = AtOrAbove(e)
                    /\ HasWarning(e, "OTM")
            /\ Range(SelectionFor(e).itm_strikes) = Largest(Below(e), oc.top_n)
            /\ Range(SelectionFor(e).otm_strikes) = Smallest(AtOrAbove(e), oc.top_n)

ReturnedLegs == oc.result.data
RowOf(symbol) == RowsOfCall[CHOOSE n \in GoodRows : RowsOfCall[n].s = symbol]
RawIntrinsic(leg) ==
    IF leg.option = "call" THEN Max(0, SpotOfCall - leg.strike_price)
    ELSE Max(0, leg.strike_price - SpotOfCall)
GivenTheo(leg) ==
    IF RowOf(leg.symbol).theoPrice = None THEN 0 ELSE RowOf(leg.symbol).theoPrice
\* a value of two decimals nearest to x (prices are in thousandths)
TwoDecimalsOf(v, x) == v % 10 = 0 /\ 2 * Abs(v - x) <= 10

\* C18 as stated: every returned leg has intrinsic_value >= 0, equal to
\* max(0, spot - strike) for a call and max(0, strike - spot) for a put, and
\* time_value = theo_price - intrinsic_value, theo_price being 0 when absent.
C18_ExactValues ==
    (Analysed /\ oc.result.success) =>
        \A n \in 1..Len(ReturnedLegs) :
            LET leg == ReturnedLegs[n]
            IN /\ leg.intrinsic_value >= 0
               /\ leg.intrinsic_value = RawIntrinsic(leg)
               /\ leg.theo_price = GivenTheo(leg)
               /\ leg.time_value = leg.theo_price - leg.intrinsic_value

\* C18, amended: every returned leg has intrinsic_value >= 0, equal to
\* max(0, spot - strike) for a call and max(0, strike - spot) for a put rounded
\* to two decimals, and time_value equal to theo_price minus the unrounded
\* intrinsic value, rounded to two decimals; theo_price is 0 when absent.
C18_ValuesRounded ==
    (Analysed /\ oc.result.success) =>
        \A n \in 1..Len(ReturnedLegs) :
            LET leg == ReturnedLegs[n]
            IN /\ leg.intrinsic_value >= 0
               /\ TwoDecimalsOf(leg.intrinsic_value, RawIntrinsic(leg))
               /\ leg.theo_price = GivenTheo(leg)
               /\ TwoDecimalsOf(leg.time_value, leg.theo_price - RawIntrinsic(leg))
               /\ Abs(leg.time_value - (leg.theo_price - leg.intrinsic_value)) <= 10

\* a returned in-the-money leg whose values are not whole cents, and a
\* returned out-of-the-money leg without theoretical price
C18_Witness ==
    /\ Analysed
    /\ oc.result.success
    /\ \E n \in 1..Len(ReturnedLegs) :
        /\ RawIntrinsic(ReturnedLegs[n]) % 10 # 0
        /\ ReturnedLegs[n].intrinsic_value # RawIntrinsic(ReturnedLegs[n])
        /\ ReturnedLegs[n].time_value
            # ReturnedLegs[n].theo_price - ReturnedLegs[n].intrinsic_value
    /\ \E n \in 1..Len(ReturnedLegs) :
        /\ RawIntrinsic(ReturnedLegs[n]) = 0
        /\ ReturnedLegs[n].intrinsic_value = 0
        /\ ReturnedLegs[n].option = "put"

\* the expiry the analytics are about: the latest one among the returned legs
ExpiryOfLeg(leg) == RowOf(leg.symbol).expiration
LatestReturned == SetMax({ExpiryOfLeg(ReturnedLegs[n]) : n \in 1..Len(ReturnedLegs)})
AnalysedLegs == SelectSeq(ReturnedLegs, LAMBDA leg : ExpiryOfLeg(leg) = LatestReturned)
RECURSIVE DeltaSum(_)
DeltaSum(legs) == IF legs = << >> THEN 0 ELSE Head(legs).delta + DeltaSum(Tail(legs))
QuotedLegs == \A n \in 1..Len(ReturnedLegs) : ReturnedLegs[n].delta # None
\* a value of four decimals nearest to x (deltas are in hundred-thousandths)
FourDecimalsOf(v, x) == v % 10 = 0 /\ 2 * Abs(v - x) <= 10
NetIsSum ==
    oc.result.analytics.net_delta
        = oc.result.analytics.total_call_delta + oc.result.analytics.total_put_delta
TotalsAreSums ==
    /\ FourDecimalsOf(oc.result.analytics.total_call_delta,
                      DeltaSum(SelectSeq(AnalysedLegs, LAMBDA leg : leg.option = "call")))
    /\ FourDecimalsOf(oc.result.analytics.total_put_delta,
                      DeltaSum(SelectSeq(AnalysedLegs, LAMBDA leg : leg.option = "put")))

\* C19 as stated: in every successful analysis that returns legs,
\* net_delta = total_call_delta + total_put_delta exactly, the two totals
\* being the sums of delta over the returned call legs and put legs of the
\* analysed expiry.
C19_NetDeltaIsSum ==
    (Analysed /\ oc.result.success /\ ReturnedLegs # << >> /\ QuotedLegs) =>
        /\ oc.result.analytics.present
        /\ NetIsSum
        /\ TotalsAreSums

AnalysedStrikes == {AnalysedLegs[n].strike_price : n \in 1..Len(AnalysedLegs)}

\* C20 as stated: in every successful analysis that returns legs, atm_strike
\* is a strike of the returned legs of the analysed expiry, and no other of
\* these strikes is nearer to the spot price.
C20_AtmIsNearestReturned ==
    (Analysed /\ oc.result.success /\ ReturnedLegs # << >>) =>
        /\ oc.result.analytics.present
        /\ oc.result.analytics.atm_strike \in AnalysedStrikes
        /\ \A k \in AnalysedStrikes :
            Abs(oc.result.analytics.atm_strike - SpotOfCall) <= Abs(k - SpotOfCall)

OptionDone == oc.pc = "done"
ChainFetched ==
    \E n \in 1..Len(oc_calls) : oc_calls[n].fn = "fetch_option_chain_data"
\* the requested expiry is a date of which the option chain has no row
ExpiryMissing ==
    /\ OptionDone
    /\ oc.expiry_date.kind = "date"
    /\ oc.option_result.success
    /\ oc.option_result.symbols = << >>
\* the text of the message has the words "not found"
SaysNotFound(message) == message = "expiry_not_found"

\* C21 as stated: when the requested expiry date is not among the expiries
\* of the underlying, the analysis returns (it does not raise) success=false
\* with a message containing "not found" and with the list of the expiries
\* that do exist.
C21_MissingExpiryReported ==
    ExpiryMissing =>
        /\ oc.result.kind = "return"
        /\ ~oc.result.success
        /\ SaysNotFound(oc.result.message)
        /\ "available_expiries" \in DOMAIN oc.result

\* the expiries of the chain on or after the day of the call
Upcoming == {e \in ExpiriesOfCall : e >= oc.current_date}
ReturnedExpiries == {ExpiryOfLeg(ReturnedLegs[n]) : n \in 1..Len(ReturnedLegs)}
NearestMode == Analysed /\ oc.expiry_date.kind = "latest" /\ Upcoming # {}

\* C22 as stated: with the selector of the nearest expiry ('latest' in this
\* source), every successful analysis returns legs of exactly one expiry, the
\* smallest expiry of the chain on or after the current date, and no leg of
\* another expiry.
C22_NearestExpiryOnly ==
    (NearestMode /\ oc.result.success) =>
        ReturnedExpiries = {SetMin(Upcoming)}

SpotFetched ==
    \E n \in 1..Len(oc_calls) : oc_calls[n].fn = "get_current_spot_price"
SpotUnavailable == SpotFetched /\ ~oc.spot_result.success

\* C23: the spot price is fetched before the option chain is, and when the
\* spot price is unavailable the analysis returns success=false with a
\* message, without raising and without any fetch of the option chain.
C23_SpotBeforeChain ==
    /\ \A n \in 1..Len(oc_calls) :
        (oc_calls[n].fn = "fetch_option_chain_data") =>
            /\ oc.spot_result.success
            /\ \E m \in 1..(n - 1) : oc_calls[m].fn = "get_current_spot_price"
    /\ SpotUnavailable =>
        /\ OptionDone
        /\ oc.result.kind = "return"
        /\ ~oc.result.success
        /\ oc.result.message = "spot_failed"
        /\ ~ChainFetched

\* a call that ended on an unavailable spot price
C23_Witness ==
    /\ OptionDone
    /\ SpotUnavailable
    /\ oc_calls = <<[fn |-> "get_current_spot_price", expiry |-> None]>>
    /\ ~oc.result.success

CountOutOfRange(n) == n < 1 \/ n > MaxStrikeCount

\* C24 as stated: a count of strikes outside 1..20 (zero, negative, above 20)
\* is rejected with a ValidationError before any fetch of the spot price or
\* of the option chain.
C24_CountValidated ==
    CountOutOfRange(oc.requested) =>
        /\ oc_calls = << >>
        /\ OptionDone =>
            /\ oc.result.kind = "raise"
            /\ oc.result.message = "validation_error"

\* ------------------------------------------------------------------------
\* Claims about the batches of fetch_historical_data
\* ------------------------------------------------------------------------
\* the rows the responses give when taken by batch index, whatever the order
\* in which they arrived
RowsByIndex ==
    LET c == combined_response(fh.batch_results)
    IN WithoutMergeErrors(
            merge_ohlc_with_indicators([ohlc |-> c.ohlc, indicator |-> c.indicator]).out)

\* C25: the rows returned are fixed by the responses of the batches taken in
\* ascending batch index, so they are the same for every order in which the
\* batches complete.
C25_OrderIndependent ==
    (BatchesDone /\ fh.result.success) =>
        /\ Range(fh.completed) = Succeeded
        /\ fh.result.data = RowsByIndex

\* a later batch completed before the first one, with other candles
C25_Witness ==
    /\ BatchesDone
    /\ fh.result.success
    /\ Len(fh.completed) >= 2
    /\ fh.completed[1] > fh.completed[2]
    /\ fh.batch_results[fh.completed[1]].ohlc # fh.batch_results[fh.completed[2]].ohlc
    /\ fh.batch_results[fh.completed[2]].ohlc # << >>

RequestedShorts ==
    {INDICATOR_MAPPING[n].short :
        n \in {m \in 1..Len(INDICATOR_MAPPING) :
                    INDICATOR_MAPPING[m].key \in Range(fh.indicator_ids)}}
FullyPopulated(row) == \A short \in RequestedShorts : FieldNames(short) \subseteq DOMAIN row
LastTs(i) == fh.batch_results[i].ohlc[Len(fh.batch_results[i].ohlc)].timestamp
\* the periods between the newest candle of batch i and that of batch 0
DriftOf(i) == Abs(LastTs(i) - LastTs(0)) \div PeriodSeconds
\* every batch succeeded with the latest candleCount + N periods of its own
\* fetch time, at most N periods away from the first batch
AllBatchesFull ==
    /\ BatchesDone
    /\ Succeeded = Batches
    /\ \A i \in Batches :
        /\ fh.batch_results[i].kind = "full"
        /\ Len(fh.batch_results[i].ohlc) = fh.numb_price_candles + i
        /\ DriftOf(i) <= i

\* C26 as stated: when every batch succeeds with the latest candleCount + N
\* periods as of its own fetch time and the fetches drift by at most one
\* period per preceding batch, the result has at least candleCount rows that
\* carry the fields of every requested indicator.
C26_DriftCompensated ==
    AllBatchesFull =>
        /\ fh.result.success
        /\ Cardinality({n \in 1..Len(fh.result.data) : FullyPopulated(fh.result.data[n])})
                >= fh.numb_price_candles

\* the list merge_ohlc_with_indicators returned to the call
MergedOfCall ==
    IF fh.batched_ids # << >>
    THEN LET c == combined_response(fh.batch_results)
         IN merge_ohlc_with_indicators([ohlc |-> c.ohlc, indicator |-> c.indicator]).out
    ELSE merge_ohlc_with_indicators(
            [ohlc |-> RespOhlc(fh.resp), indicator |-> fh.resp.indicator]).out
SentinelAt(out) == {n \in 1..Len(out) : IsSentinel(out[n])}

\* C27: the list the merge returns has the warnings element only as its last
\* element and only with at least one warning in it; the data returned by
\* fetch_historical_data never has that element, its warnings are among the
\* errors, and metadata.candles_count is the number of candle rows of data,
\* with and without indicators.
C27_SentinelStripped ==
    (FetchDone /\ fh.result.success) =>
        /\ SentinelAt(MergedOfCall) \subseteq {Len(MergedOfCall)}
        /\ \A n \in SentinelAt(MergedOfCall) :
            /\ MergedOfCall[n][MergeErrorsKey] # << >>
            /\ Range(MergedOfCall[n][MergeErrorsKey]) \subseteq Range(fh.result.errors)
        /\ SentinelAt(fh.result.data) = {}
        /\ fh.result.data = CandleRows(MergedOfCall)
        /\ fh.result.metadata.candles_count = Len(fh.result.data)

\* a batched call whose merge recorded a warning
C27_Witness ==
    /\ BatchesDone
    /\ fh.result.success
    /\ SentinelAt(MergedOfCall) # {}
    /\ Len(fh.result.data) >= 1
    /\ fh.result.metadata.candles_count = Len(MergedOfCall) - 1

\* ------------------------------------------------------------------------
\* Claims about tokens without exp claim and about changing credentials
\* ------------------------------------------------------------------------
\* C28 as stated: a refreshed token that decodes but has no exp claim is
\* cached with the expiry refresh time + 3600, and every later non-forced
\* call before that expiry minus 60 (every call within MaxTime) returns the
\* cached token.
C28_DefaultExpiry ==
    \A t \in Threads :
        /\ (tok[t].pc = "returning" /\ tok[t].outcome = "new" /\ tok[t].token.exp = None) =>
                token_cache.expiry = tok[t].current_time + DefaultTtl
        /\ (Inside(t) /\ ~tok[t].force /\ tok[t].seen.token # NoToken
                /\ tok[t].seen.token.exp = None) =>
                /\ tok[t].pc = "returning"
                /\ tok[t].outcome = "cached"
                /\ tok[t].result = tok[t].seen.token

\* C29 as stated: a call that runs under another credential than the one a
\* cached token was obtained with is not served that token: the token
\* get_valid_jwt_token returns was issued for the credential in force.
C29_TokenOfCredential ==
    \A t \in Threads :
        (tok[t].pc = "returning") => tok[t].result.cred = cookie

\* C30 as stated: every fetch asks the market data source for a number of
\* periods within the validated range 1..5000, for every accepted candle
\* count and indicator list.
C30_PeriodsInRange ==
    \A call \in stream_calls :
        call.periods >= MinCandles /\ call.periods <= MaxCandles

====
